---------------------------- MODULE Spec2Model ----------------------------
(***************************************************************************)
(* Model of the MPI word/artist counting pipeline of                       *)
(* src/src/parallel_spotify.c.                                             *)
(*                                                                         *)
(* Strings are sequences of byte values (ASCII codes); a file is the       *)
(* sequence of its bytes and a file offset o addresses the byte f[o + 1].  *)
(* A HashTable is a record [capacity, size, entries] whose entries field   *)
(* is a function from the occupied slot indices (0 .. capacity-1) to       *)
(* [key, value]; a slot outside its domain is a slot whose key is NULL.    *)
(***************************************************************************)
EXTENDS Integers, Sequences, FiniteSets, TLC

VARIABLES
    \* ---- the pipeline of main() ----
    dataset,            \* bytes of the input CSV (argv[1])
    world_size,         \* MPI_Comm_size
    text_file,          \* bytes of <split_dir>/<text>.csv
    artist_file,        \* bytes of <split_dir>/<artist>.csv
    pc,                 \* pc[rank]: position of each process in main()
    text_range,         \* text_range[rank] = [start, end, pos]
    artist_range,       \* artist_range[rank] = [start, end, pos]
    word_counts,        \* word_counts[rank]: local HashTable
    artist_counts,      \* artist_counts[rank]: local HashTable
    local_totals,       \* local_totals[rank] = [words, songs]
    global_totals,      \* rank 0: [words, songs] after MPI_Reduce
    global_words,       \* rank 0: HashTable
    global_artists,     \* rank 0: HashTable
    chan,               \* chan[rank]: messages sent by rank, not yet received
    sender,             \* sender[rank]: progress inside send_hash_table
    receiver,           \* rank 0: progress inside receive_hash_table
    arrived,            \* ranks that joined each collective
    reports,            \* files written by write_table_csv / metrics
    history,            \* ghost: what was merged, and the partial tables
    \* ---- the range arithmetic alone ----
    part,
    \* ---- hash tables alone ----
    ht,
    \* ---- export encoding alone ----
    csv,
    \* ---- the line-distributing program src/src/mpi_spotify.c ----
    msp

pipeVars == <<dataset, world_size, text_file, artist_file, pc, text_range,
              artist_range, word_counts, artist_counts, local_totals,
              global_totals, global_words, global_artists, chan, sender,
              receiver, arrived, reports, history>>
vars == <<pipeVars, part, ht, csv, msp>>

\* What an action of the pipeline leaves alone outside the pipeline.
pipeOthers == <<part, ht, csv, msp>>

----------------------------------------------------------------------------
(* Bytes *)

LF == 10
CR == 13
QUOTE == 34
APOSTROPHE == 39
COMMA == 44

\* isspace() in the C locale: \t \n \v \f \r and space.
IsSpace(c) == c \in 9..13 \/ c = 32

\* isalnum() in the C locale.
IsAlnum(c) == c \in 48..57 \/ c \in 65..90 \/ c \in 97..122

\* tolower() in the C locale.
ToLower(c) == IF c \in 65..90 THEN c + 32 ELSE c

Min(a, b) == IF a < b THEN a ELSE b

\* s[from+1 .. to] : the bytes at offsets from .. to-1.
Slice(s, from, to) == IF to <= from THEN <<>> ELSE SubSeq(s, from + 1, to)

RECURSIVE Flatten(_)
Flatten(ss) == IF ss = <<>> THEN <<>> ELSE Head(ss) \o Flatten(Tail(ss))

\* The elements of a finite set of integers in increasing order.
RECURSIVE Ascending(_)
Ascending(S) ==
    IF S = {} THEN <<>>
    ELSE LET m == CHOOSE x \in S : \A y \in S : x <= y
         IN  <<m>> \o Ascending(S \ {m})

\* strcmp(a, b): negative, zero or positive, comparing bytes as unsigned char.
RECURSIVE StrCmp(_, _)
StrCmp(a, b) ==
    IF a = <<>> /\ b = <<>> THEN 0
    ELSE IF a = <<>> THEN -1
    ELSE IF b = <<>> THEN 1
    ELSE IF Head(a) # Head(b) THEN Head(a) - Head(b)
    ELSE StrCmp(Tail(a), Tail(b))

\* printf("%lld") of a value.
RECURSIVE DecimalDigits(_)
DecimalDigits(n) ==
    IF n < 10 THEN <<48 + n>> ELSE Append(DecimalDigits(n \div 10), 48 + (n % 10))

FormatLld(n) == IF n < 0 THEN <<45>> \o DecimalDigits(-n) ELSE DecimalDigits(n)

----------------------------------------------------------------------------
(* Record reader *)

\* ReadCsvLoop ending the record at a line break inside an open quote too.
RECURSIVE ReadCsvLoopQuoteBlind(_, _, _, _)
ReadCsvLoopQuoteBlind(f, i, in_quotes, buf) ==
    IF i >= Len(f)
    THEN [len |-> IF buf = <<>> THEN -1 ELSE Len(buf), buf |-> buf, pos |-> Min(i, Len(f))]
    ELSE LET ch == f[i + 1]
             b1 == Append(buf, ch)
             hasNext == i + 1 < Len(f)
         IN  IF ch = LF \/ ch = CR
             THEN IF ch = CR /\ hasNext /\ f[i + 2] = LF
                  THEN [len |-> Len(b1) + 1, buf |-> Append(b1, LF), pos |-> i + 2]
                  ELSE [len |-> Len(b1), buf |-> b1, pos |-> i + 1]
             ELSE ReadCsvLoopQuoteBlind(f, i + 1, in_quotes, b1)

\* ReadCsvLoop without the ungetc of the byte read after a CR.
RECURSIVE ReadCsvLoopKeepsLookAhead(_, _, _, _)
ReadCsvLoopKeepsLookAhead(f, i, in_quotes, buf) ==
    IF i >= Len(f)
    THEN [len |-> IF buf = <<>> THEN -1 ELSE Len(buf), buf |-> buf, pos |-> Min(i, Len(f))]
    ELSE LET ch == f[i + 1]
             b1 == Append(buf, ch)
             hasNext == i + 1 < Len(f)
         IN  IF ch = QUOTE
             THEN IF ~in_quotes THEN ReadCsvLoopKeepsLookAhead(f, i + 1, TRUE, b1)
                  ELSE IF hasNext /\ f[i + 2] = QUOTE
                       THEN ReadCsvLoopKeepsLookAhead(f, i + 2, TRUE, Append(b1, QUOTE))
                       ELSE ReadCsvLoopKeepsLookAhead(f, i + 1, FALSE, b1)
             ELSE IF (ch = LF \/ ch = CR) /\ ~in_quotes
             THEN IF ch = CR /\ hasNext /\ f[i + 2] = LF
                  THEN [len |-> Len(b1) + 1, buf |-> Append(b1, LF), pos |-> i + 2]
                  ELSE [len |-> Len(b1), buf |-> b1,
                        pos |-> IF ch = CR /\ hasNext THEN i + 2 ELSE i + 1]
             ELSE ReadCsvLoopKeepsLookAhead(f, i + 1, in_quotes, b1)

\* read_csv_record(fp, ...) with the stream at offset `start` of file f.
\* Returns [len, buf, pos]: the return value, the buffer contents and the
\* stream offset afterwards (ungetc gives the look-ahead byte back).
RECURSIVE ReadCsvLoop(_, _, _, _)
ReadCsvLoop(f, i, in_quotes, buf) ==
    IF i >= Len(f)
    THEN [len |-> IF buf = <<>> THEN -1 ELSE Len(buf), buf |-> buf, pos |-> Min(i, Len(f))]
    ELSE LET ch == f[i + 1]
             b1 == Append(buf, ch)
             hasNext == i + 1 < Len(f)
         IN  IF ch = QUOTE
             THEN IF ~in_quotes THEN ReadCsvLoop(f, i + 1, TRUE, b1)
                  ELSE IF hasNext /\ f[i + 2] = QUOTE
                       THEN ReadCsvLoop(f, i + 2, TRUE, Append(b1, QUOTE))
                       ELSE ReadCsvLoop(f, i + 1, FALSE, b1)
             ELSE IF (ch = LF \/ ch = CR) /\ ~in_quotes
             THEN IF ch = CR /\ hasNext /\ f[i + 2] = LF
                  THEN [len |-> Len(b1) + 1, buf |-> Append(b1, LF), pos |-> i + 2]
                  ELSE [len |-> Len(b1), buf |-> b1, pos |-> i + 1]
             ELSE ReadCsvLoop(f, i + 1, in_quotes, b1)

read_csv_record(f, start) ==
    IF start >= Len(f)
    THEN [len |-> -1, buf |-> <<>>, pos |-> start]
    ELSE ReadCsvLoop(f, start, FALSE, <<>>)

\* The callers' loop `while (len > 0 && (line[len-1] == '\n' || '\r')) --len`.
RECURSIVE StripEol(_)
StripEol(line) ==
    IF line # <<>> /\ line[Len(line)] \in {LF, CR}
    THEN StripEol(SubSeq(line, 1, Len(line) - 1))
    ELSE line

\* Offset of the first byte at or after i that is not white space (bounded by hi).
RECURSIVE SkipSpace(_, _, _)
SkipSpace(s, i, hi) ==
    IF i < hi /\ IsSpace(s[i + 1]) THEN SkipSpace(s, i + 1, hi) ELSE i

\* Offset just past the last byte before `e` that is not white space.
RECURSIVE SkipSpaceBack(_, _, _)
SkipSpaceBack(s, lo, e) ==
    IF e > lo /\ IsSpace(s[e]) THEN SkipSpaceBack(s, lo, e - 1) ELSE e

trim_inplace(value) ==
    LET start == SkipSpace(value, 0, Len(value))
        end   == SkipSpaceBack(value, start, Len(value))
    IN  Slice(value, start, end)

\* The copy loop of duplicate_field over field[i .. inner_end): "" becomes ".
RECURSIVE Unescape(_, _, _)
Unescape(field, i, inner_end) ==
    IF i >= inner_end THEN <<>>
    ELSE IF field[i + 1] = QUOTE /\ i + 1 < inner_end /\ field[i + 2] = QUOTE
         THEN <<QUOTE>> \o Unescape(field, i + 2, inner_end)
         ELSE <<field[i + 1]>> \o Unescape(field, i + 1, inner_end)

duplicate_field(field, preserve_outer_quotes) ==
    LET start  == SkipSpace(field, 0, Len(field))
        end    == SkipSpaceBack(field, start, Len(field))
        quoted == end > start + 1 /\ field[start + 1] = QUOTE /\ field[end] = QUOTE
        result == IF preserve_outer_quotes /\ quoted
                  THEN Slice(field, start, end)
                  ELSE IF quoted THEN Unescape(field, start + 1, end - 1)
                                 ELSE Unescape(field, start, end)
    IN  trim_inplace(result)

\* The scanning loop of parse_csv_line: the offsets of the (at most three)
\* commas outside quotes at which the line is cut.
RECURSIVE FieldCuts(_, _, _, _)
FieldCuts(buffer, p, in_quotes, cuts) ==
    IF p >= Len(buffer) \/ Len(cuts) = 3 THEN cuts
    ELSE LET ch == buffer[p + 1]
         IN  IF ch = QUOTE
             THEN IF in_quotes /\ p + 1 < Len(buffer) /\ buffer[p + 2] = QUOTE
                  THEN FieldCuts(buffer, p + 2, in_quotes, cuts)
                  ELSE FieldCuts(buffer, p + 1, ~in_quotes, cuts)
             ELSE IF ch = COMMA /\ ~in_quotes
             THEN FieldCuts(buffer, p + 1, in_quotes, Append(cuts, p))
             ELSE FieldCuts(buffer, p + 1, in_quotes, cuts)

\* parse_csv_line: [ok, artist, lyrics].
parse_csv_line(line, preserve_artist_quotes, preserve_lyrics_quotes) ==
    LET buffer == StripEol(line)
        cuts   == FieldCuts(buffer, 0, FALSE, <<>>)
    IN  IF Len(cuts) < 3
        THEN [ok |-> FALSE, artist |-> <<>>, lyrics |-> <<>>]
        ELSE [ok |-> TRUE,
              artist |-> duplicate_field(Slice(buffer, 0, cuts[1]), preserve_artist_quotes),
              lyrics |-> duplicate_field(Slice(buffer, cuts[3] + 1, Len(buffer)),
                                         preserve_lyrics_quotes)]

----------------------------------------------------------------------------
(* Counting table *)

\* hash ^= (uint64_t)(*p): the byte changes the low eight bits of the hash.
Bit(a, i) == (a \div (2 ^ i)) % 2
XorBit(a, b, i) == ((Bit(a, i) + Bit(b, i)) % 2) * (2 ^ i)
XorByte(hash, byte) ==
    (hash \div 256) * 256
    + XorBit(hash, byte, 0) + XorBit(hash, byte, 1) + XorBit(hash, byte, 2)
    + XorBit(hash, byte, 3) + XorBit(hash, byte, 4) + XorBit(hash, byte, 5)
    + XorBit(hash, byte, 6) + XorBit(hash, byte, 7)

\* hash_string is FNV-1a over 64 bits.  Every use masks the hash with
\* capacity - 1, and the low k bits of a product depend on the low k bits of
\* its factors only, so the model carries the low HashBits bits: the offset
\* basis 1469598103934665603 and the prime 1099511628211 are reduced modulo
\* HashModulus.  Exact for every capacity up to HashModulus.
HashModulus == 65536
FnvOffsetLow == 899
FnvPrimeLow == 435

RECURSIVE HashLoop(_, _)
HashLoop(str, hash) ==
    IF str = <<>> THEN hash
    ELSE HashLoop(Tail(str), (XorByte(hash, Head(str)) * FnvPrimeLow) % HashModulus)

hash_string(str) == HashLoop(str, FnvOffsetLow)

\* next_power_of_two without the floor of 8.
NextPowerOfTwoNoFloor(value) ==
    LET RECURSIVE Up(_)
        Up(power) == IF power < value THEN Up(power * 2) ELSE power
    IN  Up(1)

next_power_of_two(value) ==
    LET RECURSIVE Up(_)
        Up(power) == IF power < value THEN Up(power * 2) ELSE power
        power == Up(1)
    IN  IF power < 8 THEN 8 ELSE power

NoEntries == [i \in {} |-> [key |-> <<>>, value |-> 0]]

ht_init(initial_capacity) ==
    [capacity |-> next_power_of_two(initial_capacity), size |-> 0, entries |-> NoEntries]

\* ht_free leaves entries = NULL, capacity = 0, size = 0.
ht_free(t) == [capacity |-> 0, size |-> 0, entries |-> NoEntries]

\* entries with slot `index` set to e.
SetSlot(entries, index, e) ==
    [i \in DOMAIN entries \cup {index} |-> IF i = index THEN e ELSE entries[i]]

\* The probe loop of ht_resize: the first slot at or after index with no key.
RECURSIVE ProbeFree(_, _, _)
ProbeFree(entries, index, mask) ==
    IF index \in DOMAIN entries
    THEN ProbeFree(entries, (index + 1) % (mask + 1), mask)
    ELSE index

\* ProbeKey without the loop: the key's home slot, whatever it holds.
ProbeKeyHomeSlot(entries, key, index, mask) == index

\* The probe loop of ht_put: the slot holding key, or the first slot with no
\* key met before it.
RECURSIVE ProbeKey(_, _, _, _)
ProbeKey(entries, key, index, mask) ==
    IF index \notin DOMAIN entries THEN index
    ELSE IF StrCmp(entries[index].key, key) = 0 THEN index
    ELSE ProbeKey(entries, key, (index + 1) % (mask + 1), mask)

\* The body of ht_resize's loop for the slots listed in `slots`.
RECURSIVE RehashInto(_, _, _)
RehashInto(resized, old, slots) ==
    IF slots = <<>> THEN resized
    ELSE LET entry == old[Head(slots)]
             mask  == resized.capacity - 1
             index == ProbeFree(resized.entries, hash_string(entry.key) % (mask + 1), mask)
         IN  RehashInto([resized EXCEPT !.entries = SetSlot(@, index, entry),
                                        !.size = @ + 1],
                        old, Tail(slots))

ht_resize(t, new_capacity) ==
    RehashInto(ht_init(new_capacity), t.entries, Ascending(DOMAIN t.entries))

\* A load test that asks for a resize only above a load of 1.
LoadExceededOverFull(t) == t.size > t.capacity

\* (double)size / (double)capacity > 0.7.  capacity is a power of two, so
\* the quotient is never exactly 7/10 and the comparison is the exact one.
LoadExceeded(t) == t.size * 10 > t.capacity * 7

\* ht_put storing delta instead of adding it to the count already held.
HtPutOverwrite(t, key, delta) ==
    IF delta = 0 THEN t
    ELSE LET t1    == IF LoadExceeded(t) THEN ht_resize(t, t.capacity * 2) ELSE t
             mask  == t1.capacity - 1
             index == ProbeKey(t1.entries, key, hash_string(key) % (mask + 1), mask)
         IN  IF index \in DOMAIN t1.entries
             THEN [t1 EXCEPT !.entries[index].value = delta]
             ELSE [t1 EXCEPT !.entries = SetSlot(@, index, [key |-> key, value |-> delta]),
                             !.size = @ + 1]

\* ht_put without the test delta == 0.
HtPutZeroProceeds(t, key, delta) ==
    LET t1    == IF LoadExceeded(t) THEN ht_resize(t, t.capacity * 2) ELSE t
        mask  == t1.capacity - 1
        index == ProbeKey(t1.entries, key, hash_string(key) % (mask + 1), mask)
    IN  IF index \in DOMAIN t1.entries
        THEN [t1 EXCEPT !.entries[index].value = @ + delta]
        ELSE [t1 EXCEPT !.entries = SetSlot(@, index, [key |-> key, value |-> delta]),
                        !.size = @ + 1]

\* ht_put without the load test: the table never grows.
HtPutNeverResizes(t, key, delta) ==
    IF delta = 0 THEN t
    ELSE LET mask  == t.capacity - 1
             index == ProbeKey(t.entries, key, hash_string(key) % (mask + 1), mask)
         IN  IF index \in DOMAIN t.entries
             THEN [t EXCEPT !.entries[index].value = @ + delta]
             ELSE [t EXCEPT !.entries = SetSlot(@, index, [key |-> key, value |-> delta]),
                            !.size = @ + 1]

\* ht_put testing the load after the insertion instead of before the probe.
HtPutLoadTestLast(t, key, delta) ==
    IF delta = 0 THEN t
    ELSE LET mask  == t.capacity - 1
             index == ProbeKey(t.entries, key, hash_string(key) % (mask + 1), mask)
             t1    == IF index \in DOMAIN t.entries
                      THEN [t EXCEPT !.entries[index].value = @ + delta]
                      ELSE [t EXCEPT !.entries = SetSlot(@, index, [key |-> key, value |-> delta]),
                                     !.size = @ + 1]
         IN  IF LoadExceeded(t1) THEN ht_resize(t1, t1.capacity * 2) ELSE t1

ht_put(t, key, delta) ==
    IF delta = 0 THEN t
    ELSE LET t1    == IF LoadExceeded(t) THEN ht_resize(t, t.capacity * 2) ELSE t
             mask  == t1.capacity - 1
             index == ProbeKey(t1.entries, key, hash_string(key) % (mask + 1), mask)
         IN  IF index \in DOMAIN t1.entries
             THEN [t1 EXCEPT !.entries[index].value = @ + delta]
             ELSE [t1 EXCEPT !.entries = SetSlot(@, index, [key |-> key, value |-> delta]),
                             !.size = @ + 1]

\* The occupied entries in slot order: what ht_to_array, ht_merge and
\* send_hash_table iterate over.
ht_to_array(t) ==
    LET slots == Ascending(DOMAIN t.entries)
    IN  [i \in 1..Len(slots) |-> t.entries[slots[i]]]

\* ht_put of every listed entry, in order.
RECURSIVE PutAll(_, _)
PutAll(dest, es) ==
    IF es = <<>> THEN dest
    ELSE LET e == es[Len(es)]
         IN  ht_put(PutAll(dest, SubSeq(es, 1, Len(es) - 1)), e.key, e.value)

\* ht_merge applying every entry of src twice.
HtMergeTwice(dest, src) == PutAll(PutAll(dest, ht_to_array(src)), ht_to_array(src))

ht_merge(dest, src) == PutAll(dest, ht_to_array(src))

\* The key-to-count mapping a table holds.
Contents(t) ==
    LET keys == {t.entries[i].key : i \in DOMAIN t.entries}
    IN  [k \in keys |-> t.entries[CHOOSE i \in DOMAIN t.entries : t.entries[i].key = k].value]

----------------------------------------------------------------------------
(* Ranking and export *)

\* entry_compare_desc without the comparison of the keys.
CompareCountOnly(ea, eb) ==
    IF ea.value < eb.value THEN 1
    ELSE IF ea.value > eb.value THEN -1
    ELSE 0

\* entry_compare_desc breaking ties by descending key.
CompareKeyDescending(ea, eb) ==
    IF ea.value < eb.value THEN 1
    ELSE IF ea.value > eb.value THEN -1
    ELSE StrCmp(eb.key, ea.key)

entry_compare_desc(ea, eb) ==
    IF ea.value < eb.value THEN 1
    ELSE IF ea.value > eb.value THEN -1
    ELSE StrCmp(ea.key, eb.key)

\* qsort(entries, n, sizeof(Entry), entry_compare_desc), as an insertion
\* sort driven by the comparator.
RECURSIVE InsertSorted(_, _)
InsertSorted(sorted, e) ==
    IF sorted = <<>> THEN <<e>>
    ELSE IF entry_compare_desc(e, Head(sorted)) < 0 THEN <<e>> \o sorted
    ELSE <<Head(sorted)>> \o InsertSorted(Tail(sorted), e)

RECURSIVE qsort(_)
qsort(entries) ==
    IF entries = <<>> THEN <<>>
    ELSE InsertSorted(qsort(SubSeq(entries, 1, Len(entries) - 1)), entries[Len(entries)])

\* The bytes write_csv_entry copies for the key: each quote doubled.
RECURSIVE EscapeQuotes(_)
EscapeQuotes(key) ==
    IF key = <<>> THEN <<>>
    ELSE IF Head(key) = QUOTE THEN <<QUOTE, QUOTE>> \o EscapeQuotes(Tail(key))
    ELSE <<Head(key)>> \o EscapeQuotes(Tail(key))

\* write_csv_entry copying the key as it is, quotes not doubled.
WriteCsvEntryRaw(key, value) ==
    <<QUOTE>> \o key \o <<QUOTE>> \o <<COMMA>> \o FormatLld(value) \o <<LF>>

write_csv_entry(key, value) ==
    <<QUOTE>> \o EscapeQuotes(key) \o <<QUOTE>> \o <<COMMA>> \o FormatLld(value) \o <<LF>>

\* MaxItems without the test limit > 0.
MaxItemsZeroLimit(array_size, limit) ==
    IF limit < array_size THEN limit ELSE array_size

\* The number of entries write_table_csv writes.
MaxItems(array_size, limit) ==
    IF limit > 0 /\ limit < array_size THEN limit ELSE array_size

\* The entries write_table_csv passes to write_csv_entry, in that order.
RankedEntries(t, limit) ==
    LET entries   == qsort(ht_to_array(t))
        max_items == MaxItems(Len(entries), limit)
    IN  SubSeq(entries, 1, max_items)

\* write_table_csv: the lines written, the header line first.
write_table_csv(t, key_header, limit) ==
    LET entries == RankedEntries(t, limit)
    IN  <<key_header \o <<COMMA, 99, 111, 117, 110, 116, LF>> >>
        \o [i \in 1..Len(entries) |-> write_csv_entry(entries[i].key, entries[i].value)]

\* The bytes process_lyrics copies into its token buffer.
IsTokenChar(c) == IsAlnum(c) \/ c = APOSTROPHE

\* The maximal runs of token characters of lyrics[p ..], lower-cased, in
\* the order process_lyrics meets them (the run ending at the end of the
\* string included).
RECURSIVE TokenEnd(_, _)
TokenEnd(lyrics, p) ==
    IF p < Len(lyrics) /\ IsTokenChar(lyrics[p + 1]) THEN TokenEnd(lyrics, p + 1) ELSE p

RECURSIVE TokenRuns(_, _)
TokenRuns(lyrics, p) ==
    IF p >= Len(lyrics) THEN <<>>
    ELSE IF IsTokenChar(lyrics[p + 1])
         THEN LET e == TokenEnd(lyrics, p)
              IN  <<[i \in 1..(e - p) |-> ToLower(lyrics[p + i])]>> \o TokenRuns(lyrics, e)
         ELSE TokenRuns(lyrics, p + 1)

\* CountRuns without the test length >= 3.
RECURSIVE CountRunsOfAnyLength(_, _)
CountRunsOfAnyLength(acc, runs) ==
    IF runs = <<>> THEN acc
    ELSE LET before == CountRunsOfAnyLength(acc, SubSeq(runs, 1, Len(runs) - 1))
             token  == runs[Len(runs)]
         IN  [table |-> ht_put(before.table, token, 1), total |-> before.total + 1]

\* The `if (length >= 3) { ht_put(word_counts, buffer, 1); (*total_words)++; }`
\* of process_lyrics, for each run in order.
RECURSIVE CountRuns(_, _)
CountRuns(acc, runs) ==
    IF runs = <<>> THEN acc
    ELSE LET before == CountRuns(acc, SubSeq(runs, 1, Len(runs) - 1))
             token  == runs[Len(runs)]
         IN  IF Len(token) >= 3
             THEN [table |-> ht_put(before.table, token, 1), total |-> before.total + 1]
             ELSE before

\* process_lyrics: [table, total] afterwards.
process_lyrics(word_table, lyrics, total_words) ==
    CountRuns([table |-> word_table, total |-> total_words], TokenRuns(lyrics, 0))

----------------------------------------------------------------------------
(* Inputs of the pipeline *)

MaxWorkers == 3
MaxRecords == 3
ChanCap == 1

\* "artist,song,link,text\n"
HeaderRow == <<97, 114, 116, 105, 115, 116, 44, 115, 111, 110, 103, 44,
               108, 105, 110, 107, 44, 116, 101, 120, 116, 10>>
\* "A,s1,x,hello world\n"
RowA1 == <<65, 44, 115, 49, 44, 120, 44, 104, 101, 108, 108, 111, 32,
           119, 111, 114, 108, 100, 10>>
\* "B,s2,x,hello there\n"
RowB2 == <<66, 44, 115, 50, 44, 120, 44, 104, 101, 108, 108, 111, 32,
           116, 104, 101, 114, 101, 10>>
\* "A,s3,x,world\n"
RowA3 == <<65, 44, 115, 51, 44, 120, 44, 119, 111, 114, 108, 100, 10>>
\* "C,s4,x,\"one two\nthree\"\n": a quoted text field holding a line break
RowC4 == <<67, 44, 115, 52, 44, 120, 44, 34, 111, 110, 101, 32, 116, 119, 111,
           10, 116, 104, 114, 101, 101, 34, 10>>

Rows == {RowA1, RowB2, RowA3, RowC4}

RECURSIVE SeqsUpTo(_, _)
SeqsUpTo(S, n) ==
    IF n = 0 THEN {<<>>}
    ELSE LET shorter == SeqsUpTo(S, n - 1)
         IN  shorter \cup {Append(q, x) : q \in {t \in shorter : Len(t) = n - 1}, x \in S}

\* The datasets of the model: the header row and up to MaxRecords rows, no
\* row twice, in any order.
Datasets ==
    {HeaderRow \o Flatten(rows) :
        rows \in {q \in SeqsUpTo(Rows, MaxRecords) :
                     \A i \in DOMAIN q : \A j \in DOMAIN q : q[i] = q[j] => i = j}}

ScenarioDataset == HeaderRow \o RowA1 \o RowB2 \o RowA3

----------------------------------------------------------------------------
(* Column files and byte ranges *)

\* "Artists", "Texts": the labels split_dataset_columns falls back to.
DefaultArtistLabel == <<65, 114, 116, 105, 115, 116, 115>>
DefaultTextLabel == <<84, 101, 120, 116, 115>>

\* SplitLoop without the `continue` for a record parse_csv_line rejects:
\* the record adds a line (of no bytes) to both column files.
RECURSIVE SplitLoopKeepsRejected(_, _)
SplitLoopKeepsRejected(input, pos) ==
    LET r == read_csv_record(input, pos)
    IN  IF r.len < 0 THEN [artist |-> <<>>, text |-> <<>>]
        ELSE LET rest   == SplitLoopKeepsRejected(input, r.pos)
                 parsed == parse_csv_line(r.buf, TRUE, TRUE)
             IN  [artist |-> parsed.artist \o <<LF>> \o rest.artist,
                  text   |-> parsed.lyrics \o <<LF>> \o rest.text]

\* The records loop of split_dataset_columns from offset pos of the input:
\* the lines appended to the artist and the text column file.
RECURSIVE SplitLoop(_, _)
SplitLoop(input, pos) ==
    LET r == read_csv_record(input, pos)
    IN  IF r.len < 0 THEN [artist |-> <<>>, text |-> <<>>]
        ELSE LET rest   == SplitLoop(input, r.pos)
                 parsed == parse_csv_line(r.buf, TRUE, TRUE)
             IN  IF ~parsed.ok THEN rest
                 ELSE [artist |-> parsed.artist \o <<LF>> \o rest.artist,
                       text   |-> parsed.lyrics \o <<LF>> \o rest.text]

\* split_dataset_columns, called with the labels main() parsed from the
\* header row: the two column files.
split_dataset_columns(input) ==
    LET header == read_csv_record(input, 0)
        labels == parse_csv_line(header.buf, FALSE, FALSE)
        artist_label == IF labels.artist # <<>> THEN labels.artist ELSE DefaultArtistLabel
        text_label   == IF labels.lyrics # <<>> THEN labels.lyrics ELSE DefaultTextLabel
        body   == IF header.len < 0 THEN [artist |-> <<>>, text |-> <<>>]
                  ELSE SplitLoop(input, header.pos)
    IN  [artist |-> artist_label \o <<LF>> \o body.artist,
         text   |-> text_label \o <<LF>> \o body.text]

\* compute_header_length: ftell after getline, -1 if nothing could be read.
RECURSIVE LineEnd(_, _)
LineEnd(f, i) ==
    IF i >= Len(f) THEN Len(f) ELSE IF f[i + 1] = LF THEN i + 1 ELSE LineEnd(f, i + 1)

compute_header_length(f) == IF Len(f) = 0 THEN -1 ELSE LineEnd(f, 0)

get_file_size(f) == Len(f)

\* Lines 866-882 of main(): the byte range of a rank.
DataBytes(file_size, header_len) ==
    IF file_size > header_len THEN file_size - header_len ELSE 0

\* LocalStart without the remainder term.
LocalStartNoRemainder(file_size, header_len, size, rank) ==
    header_len + rank * (DataBytes(file_size, header_len) \div size)

LocalStart(file_size, header_len, size, rank) ==
    LET data_bytes == DataBytes(file_size, header_len)
        base_chunk == data_bytes \div size
        remainder  == data_bytes % size
    IN  header_len + rank * base_chunk + (IF rank < remainder THEN rank ELSE remainder)

LocalEnd(file_size, header_len, size, rank) ==
    LET data_bytes == DataBytes(file_size, header_len)
        base_chunk == data_bytes \div size
        remainder  == data_bytes % size
    IN  IF rank = size - 1 THEN file_size
        ELSE LocalStart(file_size, header_len, size, rank) + base_chunk
             + (IF rank < remainder THEN 1 ELSE 0)

\* Lines 901-916 / 954-969: the stream offset before the read loop.  A rank
\* whose start lies past the header reads (and drops) one record from there.
SeekStart(f, local_start, header_len) ==
    IF local_start > header_len
    THEN read_csv_record(f, local_start).pos
    ELSE header_len

----------------------------------------------------------------------------
(* The pipeline of main(): one process per rank *)

DEFAULT_WORD_LIMIT == 100
DEFAULT_ARTIST_LIMIT == 50
WORD_TABLE_CAPACITY == 65536
ARTIST_TABLE_CAPACITY == 8192
WORD_TAG_BASE == 100
ARTIST_TAG_BASE == 200

\* "word", "artist": the key_header arguments of write_table_csv.
WordHeader == <<119, 111, 114, 100>>
ArtistHeader == <<97, 114, 116, 105, 115, 116>>

Ranks == 0..(world_size - 1)
Contributors == 1..(world_size - 1)

NoRange == [start |-> 0, end |-> 0, pos |-> 0]
NoTable == [capacity |-> 0, size |-> 0, entries |-> NoEntries]
NoMapping == [k \in {} |-> 0]
IdleSender == [tag_base |-> 0, i |-> 0, step |-> 0]
IdleReceiver == [source |-> 0, tag_base |-> 0, step |-> 0, entry_count |-> 0,
                 i |-> 0, len |-> 0, buffer |-> <<>>]

PipeInit ==
    /\ world_size \in 1..MaxWorkers
    /\ dataset \in Datasets
    /\ text_file = <<>>
    /\ artist_file = <<>>
    /\ pc = [r \in Ranks |-> IF r = 0 THEN "split" ELSE "bcast"]
    /\ text_range = [r \in Ranks |-> NoRange]
    /\ artist_range = [r \in Ranks |-> NoRange]
    /\ word_counts = [r \in Ranks |-> NoTable]
    /\ artist_counts = [r \in Ranks |-> NoTable]
    /\ local_totals = [r \in Ranks |-> [words |-> 0, songs |-> 0]]
    /\ global_totals = [words |-> 0, songs |-> 0]
    /\ global_words = NoTable
    /\ global_artists = NoTable
    /\ chan = [r \in Ranks |-> <<>>]
    /\ sender = [r \in Ranks |-> IdleSender]
    /\ receiver = IdleReceiver
    /\ arrived = [bcast |-> FALSE, barrier1 |-> {}, reduce |-> {},
                  barrier2 |-> {}, metrics |-> {}]
    /\ reports = [words |-> <<>>, artists |-> <<>>, metrics |-> <<>>]
    /\ history = [merged |-> <<>>,
                  partial |-> [r \in Ranks |-> [words |-> NoMapping, artists |-> NoMapping]]]

Goto(r, label) == pc' = [pc EXCEPT ![r] = label]

\* Lines 778-828: rank 0 writes the two column files.
SplitColumns ==
    /\ pc[0] = "split"
    /\ LET files == split_dataset_columns(dataset)
       IN  /\ text_file' = files.text
           /\ artist_file' = files.artist
    /\ Goto(0, "bcast")
    /\ UNCHANGED pipeOthers
    /\ UNCHANGED <<dataset, world_size, text_range, artist_range, word_counts,
                   artist_counts, local_totals, global_totals, global_words,
                   global_artists, chan, sender, receiver, arrived, reports, history>>

\* Lines 830-831: MPI_Bcast of the sanitized names from rank 0.
Bcast(r) ==
    /\ pc[r] = "bcast"
    /\ r = 0 \/ arrived.bcast
    /\ arrived' = [arrived EXCEPT !.bcast = TRUE]
    /\ Goto(r, "barrier1")
    /\ UNCHANGED pipeOthers
    /\ UNCHANGED <<dataset, world_size, text_file, artist_file, text_range,
                   artist_range, word_counts, artist_counts, local_totals,
                   global_totals, global_words, global_artists, chan, sender,
                   receiver, reports, history>>

\* Line 850: a rank joins the start barrier.
EnterStartBarrier(r) ==
    /\ pc[r] = "barrier1"
    /\ arrived' = [arrived EXCEPT !.barrier1 = @ \cup {r}]
    /\ Goto(r, "in_barrier1")
    /\ UNCHANGED pipeOthers
    /\ UNCHANGED <<dataset, world_size, text_file, artist_file, text_range,
                   artist_range, word_counts, artist_counts, local_totals,
                   global_totals, global_words, global_artists, chan, sender,
                   receiver, reports, history>>

\* ComputeRanges with an exit for an empty data region: the rank finalizes
\* at once.
ComputeRangesOrStop(r) ==
    /\ pc[r] = "in_barrier1"
    /\ arrived.barrier1 = Ranks
    /\ LET text_header_len   == compute_header_length(text_file)
           text_file_size    == get_file_size(text_file)
           artist_header_len == compute_header_length(artist_file)
           artist_file_size  == get_file_size(artist_file)
           text_local_start  == LocalStart(text_file_size, text_header_len, world_size, r)
       IN  /\ text_range' = [text_range EXCEPT ![r] =
                  [start |-> text_local_start,
                   end   |-> LocalEnd(text_file_size, text_header_len, world_size, r),
                   pos   |-> SeekStart(text_file, text_local_start, text_header_len)]]
           /\ artist_range' = [artist_range EXCEPT ![r] =
                  [start |-> LocalStart(artist_file_size, artist_header_len, world_size, r),
                   end   |-> LocalEnd(artist_file_size, artist_header_len, world_size, r),
                   pos   |-> 0]]
    /\ word_counts' = [word_counts EXCEPT ![r] = ht_init(WORD_TABLE_CAPACITY)]
    /\ artist_counts' = [artist_counts EXCEPT ![r] = ht_init(ARTIST_TABLE_CAPACITY)]
    /\ Goto(r, IF get_file_size(text_file) <= compute_header_length(text_file)
                THEN "done" ELSE "read_text")
    /\ UNCHANGED pipeOthers
    /\ UNCHANGED <<dataset, world_size, text_file, artist_file, local_totals,
                   global_totals, global_words, global_artists, chan, sender,
                   receiver, arrived, reports, history>>

\* Lines 850-916: the barrier releases the rank once all have joined; the
\* rank takes start_time, reads the column files' metadata, computes its
\* two byte ranges, initialises its tables, opens the text column and
\* positions the stream.
ComputeRanges(r) ==
    /\ pc[r] = "in_barrier1"
    /\ arrived.barrier1 = Ranks
    /\ LET text_header_len   == compute_header_length(text_file)
           text_file_size    == get_file_size(text_file)
           artist_header_len == compute_header_length(artist_file)
           artist_file_size  == get_file_size(artist_file)
           text_local_start  == LocalStart(text_file_size, text_header_len, world_size, r)
       IN  /\ text_range' = [text_range EXCEPT ![r] =
                  [start |-> text_local_start,
                   end   |-> LocalEnd(text_file_size, text_header_len, world_size, r),
                   pos   |-> SeekStart(text_file, text_local_start, text_header_len)]]
           /\ artist_range' = [artist_range EXCEPT ![r] =
                  [start |-> LocalStart(artist_file_size, artist_header_len, world_size, r),
                   end   |-> LocalEnd(artist_file_size, artist_header_len, world_size, r),
                   pos   |-> 0]]
    /\ word_counts' = [word_counts EXCEPT ![r] = ht_init(WORD_TABLE_CAPACITY)]
    /\ artist_counts' = [artist_counts EXCEPT ![r] = ht_init(ARTIST_TABLE_CAPACITY)]
    /\ Goto(r, "read_text")
    /\ UNCHANGED pipeOthers
    /\ UNCHANGED <<dataset, world_size, text_file, artist_file, local_totals,
                   global_totals, global_words, global_artists, chan, sender,
                   receiver, arrived, reports, history>>

\* Lines 933-941: the body of the text read loop for one record.
CountLyrics(table, total, rec) ==
    LET lyrics == duplicate_field(StripEol(rec.buf), TRUE)
    IN  IF lyrics # <<>>
        THEN process_lyrics(table, lyrics, total)
        ELSE [table |-> table, total |-> total]

\* Lines 986-995: the body of the artist read loop for one record.
CountArtist(table, rec) ==
    LET artist == duplicate_field(StripEol(rec.buf), FALSE)
    IN  IF artist # <<>> THEN ht_put(table, artist, 1) ELSE table

\* Lines 918-943: one iteration of the text read loop; on leaving the loop,
\* lines 944-969: close the text column, open the artist column and
\* position the stream.
ReadText(r) ==
    /\ pc[r] = "read_text"
    /\ LET range == text_range[r]
           rec   == read_csv_record(text_file, range.pos)
       IN  IF (r # world_size - 1 /\ range.pos >= range.end) \/ rec.len < 0
           THEN /\ artist_range' = [artist_range EXCEPT ![r].pos =
                       SeekStart(artist_file, artist_range[r].start,
                                 compute_header_length(artist_file))]
                /\ Goto(r, "read_artist")
                /\ UNCHANGED <<text_range, word_counts, local_totals>>
           ELSE LET counted == CountLyrics(word_counts[r], local_totals[r].words, rec)
                IN  /\ text_range' = [text_range EXCEPT ![r].pos = rec.pos]
                    /\ word_counts' = [word_counts EXCEPT ![r] = counted.table]
                    /\ local_totals' = [local_totals EXCEPT ![r].words = counted.total]
                    /\ UNCHANGED <<pc, artist_range>>
    /\ UNCHANGED pipeOthers
    /\ UNCHANGED <<dataset, world_size, text_file, artist_file,
                   artist_counts, global_totals, global_words, global_artists,
                   chan, sender, receiver, arrived, reports, history>>

\* Lines 971-998: one iteration of the artist read loop.
ReadArtist(r) ==
    /\ pc[r] = "read_artist"
    /\ LET range == artist_range[r]
           rec   == read_csv_record(artist_file, range.pos)
       IN  IF (r # world_size - 1 /\ range.pos >= range.end) \/ rec.len < 0
           THEN /\ Goto(r, "reduce")
                /\ UNCHANGED <<artist_range, artist_counts, local_totals>>
           ELSE /\ artist_range' = [artist_range EXCEPT ![r].pos = rec.pos]
                /\ artist_counts' = [artist_counts EXCEPT ![r] = CountArtist(@, rec)]
                /\ local_totals' = [local_totals EXCEPT ![r].songs = @ + 1]
                /\ UNCHANGED pc
    /\ UNCHANGED pipeOthers
    /\ UNCHANGED <<dataset, world_size, text_file, artist_file, text_range,
                   word_counts, global_totals, global_words, global_artists,
                   chan, sender, receiver, arrived, reports, history>>

\* MPI_SUM over the ranks 0 .. n-1.
RECURSIVE SumOver(_, _)
SumOver(f, n) == IF n = 0 THEN 0 ELSE SumOver(f, n - 1) + f[n - 1]

PartialOf(r) == [words |-> Contents(word_counts[r]), artists |-> Contents(artist_counts[r])]

\* Lines 1000-1005 on a rank other than 0: it contributes its two totals
\* to the reductions and goes on to send its tables.
ContributeTotals(r) ==
    /\ r # 0
    /\ pc[r] = "reduce"
    /\ arrived' = [arrived EXCEPT !.reduce = @ \cup {r}]
    /\ history' = [history EXCEPT !.partial[r] = PartialOf(r)]
    /\ sender' = [sender EXCEPT ![r] = [tag_base |-> WORD_TAG_BASE, i |-> 0, step |-> 0]]
    /\ Goto(r, "send")
    /\ UNCHANGED pipeOthers
    /\ UNCHANGED <<dataset, world_size, text_file, artist_file, text_range,
                   artist_range, word_counts, artist_counts, local_totals,
                   global_totals, global_words, global_artists, chan,
                   receiver, reports>>

\* ReduceTotals leaving rank 0 with its own two totals only.
ReduceTotalsRootOnly ==
    /\ pc[0] = "reduce"
    /\ arrived.reduce = Contributors
    /\ global_totals' = local_totals[0]
    /\ history' = [history EXCEPT !.partial[0] = PartialOf(0)]
    /\ Goto(0, "merge")
    /\ UNCHANGED pipeOthers
    /\ UNCHANGED <<dataset, world_size, text_file, artist_file, text_range,
                   artist_range, word_counts, artist_counts, local_totals,
                   global_words, global_artists, chan, sender, receiver,
                   arrived, reports>>

\* Lines 1000-1009 on rank 0: the reductions complete with every rank's
\* contribution.
ReduceTotals ==
    /\ pc[0] = "reduce"
    /\ arrived.reduce = Contributors
    /\ global_totals' =
           [words |-> SumOver([r \in Ranks |-> local_totals[r].words], world_size),
            songs |-> SumOver([r \in Ranks |-> local_totals[r].songs], world_size)]
    /\ history' = [history EXCEPT !.partial[0] = PartialOf(0)]
    /\ Goto(0, "merge")
    /\ UNCHANGED pipeOthers
    /\ UNCHANGED <<dataset, world_size, text_file, artist_file, text_range,
                   artist_range, word_counts, artist_counts, local_totals,
                   global_words, global_artists, chan, sender, receiver,
                   arrived, reports>>

\* MergeOwn going on to the export without the receive loop.
MergeOwnThenExport ==
    /\ pc[0] = "merge"
    /\ global_words' = ht_merge(ht_init(word_counts[0].capacity), word_counts[0])
    /\ global_artists' = ht_merge(ht_init(artist_counts[0].capacity), artist_counts[0])
    /\ word_counts' = [word_counts EXCEPT ![0] = ht_free(@)]
    /\ artist_counts' = [artist_counts EXCEPT ![0] = ht_free(@)]
    /\ history' = [history EXCEPT !.merged = @ \o <<<<0, WORD_TAG_BASE>>, <<0, ARTIST_TAG_BASE>>>>]
    /\ receiver' = [IdleReceiver EXCEPT !.source = 1, !.tag_base = WORD_TAG_BASE]
    /\ Goto(0, "export")
    /\ UNCHANGED pipeOthers
    /\ UNCHANGED <<dataset, world_size, text_file, artist_file, text_range,
                   artist_range, local_totals, global_totals, chan, sender,
                   arrived, reports>>

\* Lines 1011-1020: rank 0 merges its own tables into the global ones.
MergeOwn ==
    /\ pc[0] = "merge"
    /\ global_words' = ht_merge(ht_init(word_counts[0].capacity), word_counts[0])
    /\ global_artists' = ht_merge(ht_init(artist_counts[0].capacity), artist_counts[0])
    /\ word_counts' = [word_counts EXCEPT ![0] = ht_free(@)]
    /\ artist_counts' = [artist_counts EXCEPT ![0] = ht_free(@)]
    /\ history' = [history EXCEPT !.merged = @ \o <<<<0, WORD_TAG_BASE>>, <<0, ARTIST_TAG_BASE>>>>]
    /\ receiver' = [IdleReceiver EXCEPT !.source = 1, !.tag_base = WORD_TAG_BASE]
    /\ Goto(0, IF world_size = 1 THEN "export" ELSE "recv")
    /\ UNCHANGED pipeOthers
    /\ UNCHANGED <<dataset, world_size, text_file, artist_file, text_range,
                   artist_range, local_totals, global_totals, chan, sender,
                   arrived, reports>>

\* ---- send_hash_table, one MPI_Send per action ----

SendingTable(r) ==
    IF sender[r].tag_base = WORD_TAG_BASE THEN word_counts[r] ELSE artist_counts[r]

\* MPI_Send(dest = 0): the message is in flight once the send returns; the
\* send cannot complete while ChanCap messages of this rank are in flight.
MpiSend(r, tag, data) ==
    /\ Len(chan[r]) < ChanCap
    /\ chan' = [chan EXCEPT ![r] = Append(@, [tag |-> tag, data |-> data])]

\* SendReturns leaving for the barrier after the word table, the artist
\* table unsent.
SendReturnsWordsOnly(r) ==
    /\ sender' = [sender EXCEPT ![r] = IdleSender]
    /\ word_counts' = [word_counts EXCEPT ![r] = ht_free(@)]
    /\ artist_counts' = [artist_counts EXCEPT ![r] = ht_free(@)]
    /\ Goto(r, "barrier2")

\* send_hash_table returned: lines 1061-1064 go on with the artist table,
\* or free both tables.
SendReturns(r) ==
    IF sender[r].tag_base = WORD_TAG_BASE
    THEN /\ sender' = [sender EXCEPT ![r] = [tag_base |-> ARTIST_TAG_BASE, i |-> 0, step |-> 0]]
         /\ UNCHANGED <<pc, word_counts, artist_counts>>
    ELSE /\ sender' = [sender EXCEPT ![r] = IdleSender]
         /\ word_counts' = [word_counts EXCEPT ![r] = ht_free(@)]
         /\ artist_counts' = [artist_counts EXCEPT ![r] = ht_free(@)]
         /\ Goto(r, "barrier2")

SendUnchanged == UNCHANGED <<pipeOthers, dataset, world_size, text_file, artist_file, text_range,
                             artist_range, local_totals, global_totals, global_words,
                             global_artists, receiver, arrived, reports, history>>

\* SendCount sending no entry count for a table without entries.
SendCountUnlessEmpty(r) ==
    /\ pc[r] = "send"
    /\ sender[r].step = 0
    /\ IF ht_to_array(SendingTable(r)) = <<>>
       THEN /\ UNCHANGED chan
            /\ SendReturns(r)
       ELSE /\ MpiSend(r, sender[r].tag_base, SendingTable(r).size)
            /\ sender' = [sender EXCEPT ![r].i = 1, ![r].step = 1]
            /\ UNCHANGED <<pc, word_counts, artist_counts>>
    /\ SendUnchanged

\* Lines 398-399: the entry count.
SendCount(r) ==
    /\ pc[r] = "send"
    /\ sender[r].step = 0
    /\ MpiSend(r, sender[r].tag_base, SendingTable(r).size)
    /\ IF ht_to_array(SendingTable(r)) = <<>>
       THEN SendReturns(r)
       ELSE /\ sender' = [sender EXCEPT ![r].i = 1, ![r].step = 1]
            /\ UNCHANGED <<pc, word_counts, artist_counts>>
    /\ SendUnchanged

\* Line 406: the key length of the i-th occupied slot.
SendLen(r) ==
    /\ pc[r] = "send"
    /\ sender[r].step = 1
    /\ MpiSend(r, sender[r].tag_base + 1, Len(ht_to_array(SendingTable(r))[sender[r].i].key))
    /\ sender' = [sender EXCEPT ![r].step = 2]
    /\ UNCHANGED <<pc, word_counts, artist_counts>>
    /\ SendUnchanged

\* Line 407: the key bytes.
SendKey(r) ==
    /\ pc[r] = "send"
    /\ sender[r].step = 2
    /\ MpiSend(r, sender[r].tag_base + 2, ht_to_array(SendingTable(r))[sender[r].i].key)
    /\ sender' = [sender EXCEPT ![r].step = 3]
    /\ UNCHANGED <<pc, word_counts, artist_counts>>
    /\ SendUnchanged

\* Line 408: the count, and the loop's next slot.
SendValue(r) ==
    /\ pc[r] = "send"
    /\ sender[r].step = 3
    /\ MpiSend(r, sender[r].tag_base + 3, ht_to_array(SendingTable(r))[sender[r].i].value)
    /\ IF sender[r].i = Len(ht_to_array(SendingTable(r)))
       THEN SendReturns(r)
       ELSE /\ sender' = [sender EXCEPT ![r].i = @ + 1, ![r].step = 1]
            /\ UNCHANGED <<pc, word_counts, artist_counts>>
    /\ SendUnchanged

\* ---- receive_hash_table, one MPI_Recv per action ----

\* A matching in which a later message with the tag overtakes an earlier
\* one: the position of the last message carrying tag.
RECURSIVE LastWithTag(_, _, _)
LastWithTag(q, tag, i) ==
    IF i > Len(q) THEN 0
    ELSE LET later == LastWithTag(q, tag, i + 1)
         IN  IF later # 0 THEN later ELSE IF q[i].tag = tag THEN i ELSE 0

\* The position in q of the first message carrying tag, 0 if there is none
\* (messages of one sender with one tag do not overtake each other).
RECURSIVE FirstWithTag(_, _, _)
FirstWithTag(q, tag, i) ==
    IF i > Len(q) THEN 0 ELSE IF q[i].tag = tag THEN i ELSE FirstWithTag(q, tag, i + 1)

Without(q, i) == SubSeq(q, 1, i - 1) \o SubSeq(q, i + 1, Len(q))

\* MPI_Recv(source, tag) completes with message m.
MpiRecv(source, tag, m) ==
    LET at == FirstWithTag(chan[source], tag, 1)
    IN  /\ at # 0
        /\ m = chan[source][at]
        /\ chan' = [chan EXCEPT ![source] = Without(@, at)]

\* RecvReturns collecting the word tables of all sources first and their
\* artist tables afterwards.
RecvReturnsWordsFirst ==
    /\ history' = [history EXCEPT !.merged = Append(@, <<receiver.source, receiver.tag_base>>)]
    /\ IF receiver.source + 1 < world_size
       THEN /\ receiver' = [IdleReceiver EXCEPT !.source = receiver.source + 1,
                                               !.tag_base = receiver.tag_base]
            /\ UNCHANGED pc
       ELSE IF receiver.tag_base = WORD_TAG_BASE
            THEN /\ receiver' = [IdleReceiver EXCEPT !.source = 1,
                                                    !.tag_base = ARTIST_TAG_BASE]
                 /\ UNCHANGED pc
            ELSE /\ receiver' = [IdleReceiver EXCEPT !.source = receiver.source + 1,
                                                    !.tag_base = WORD_TAG_BASE]
                 /\ Goto(0, "export")

\* receive_hash_table returned: lines 1022-1025 go on with the artist table
\* of the same source, or with the next source.
RecvReturns ==
    /\ history' = [history EXCEPT !.merged = Append(@, <<receiver.source, receiver.tag_base>>)]
    /\ IF receiver.tag_base = WORD_TAG_BASE
       THEN /\ receiver' = [IdleReceiver EXCEPT !.source = receiver.source,
                                               !.tag_base = ARTIST_TAG_BASE]
            /\ UNCHANGED pc
       ELSE /\ receiver' = [IdleReceiver EXCEPT !.source = receiver.source + 1,
                                               !.tag_base = WORD_TAG_BASE]
            /\ IF receiver.source + 1 < world_size
               THEN UNCHANGED pc
               ELSE Goto(0, "export")

RecvUnchanged == UNCHANGED <<pipeOthers, dataset, world_size, text_file, artist_file, text_range,
                             artist_range, word_counts, artist_counts, local_totals,
                             global_totals, sender, arrived, reports>>

\* Line 416: the entry count.
RecvCount ==
    /\ pc[0] = "recv"
    /\ receiver.step = 0
    /\ \E m \in {chan[receiver.source][k] : k \in DOMAIN chan[receiver.source]} :
          /\ MpiRecv(receiver.source, receiver.tag_base, m)
          /\ IF m.data <= 0
             THEN RecvReturns
             ELSE /\ receiver' = [receiver EXCEPT !.entry_count = m.data, !.i = 0, !.step = 1]
                  /\ UNCHANGED <<pc, history>>
    /\ UNCHANGED <<global_words, global_artists>>
    /\ RecvUnchanged

\* Line 419: the key length.
RecvLen ==
    /\ pc[0] = "recv"
    /\ receiver.step = 1
    /\ \E m \in {chan[receiver.source][k] : k \in DOMAIN chan[receiver.source]} :
          /\ MpiRecv(receiver.source, receiver.tag_base + 1, m)
          /\ receiver' = [receiver EXCEPT !.len = m.data, !.step = 2]
    /\ UNCHANGED <<pc, history, global_words, global_artists>>
    /\ RecvUnchanged

\* Lines 420-426: the key bytes.
RecvKey ==
    /\ pc[0] = "recv"
    /\ receiver.step = 2
    /\ \E m \in {chan[receiver.source][k] : k \in DOMAIN chan[receiver.source]} :
          /\ MpiRecv(receiver.source, receiver.tag_base + 2, m)
          /\ receiver' = [receiver EXCEPT !.buffer = SubSeq(m.data, 1, receiver.len),
                                          !.step = 3]
    /\ UNCHANGED <<pc, history, global_words, global_artists>>
    /\ RecvUnchanged

\* RecvValue leaving the loop one entry before the announced count.
RecvValueOneShort ==
    /\ pc[0] = "recv"
    /\ receiver.step = 3
    /\ \E m \in {chan[receiver.source][k] : k \in DOMAIN chan[receiver.source]} :
          /\ MpiRecv(receiver.source, receiver.tag_base + 3, m)
          /\ IF receiver.tag_base = WORD_TAG_BASE
             THEN /\ global_words' = ht_put(global_words, receiver.buffer, m.data)
                  /\ UNCHANGED global_artists
             ELSE /\ global_artists' = ht_put(global_artists, receiver.buffer, m.data)
                  /\ UNCHANGED global_words
          /\ IF receiver.i + 2 < receiver.entry_count
             THEN /\ receiver' = [receiver EXCEPT !.i = @ + 1, !.step = 1]
                  /\ UNCHANGED <<pc, history>>
             ELSE RecvReturns
    /\ RecvUnchanged

\* Lines 427-430: the count, the ht_put into the destination, and the
\* loop's next entry.
RecvValue ==
    /\ pc[0] = "recv"
    /\ receiver.step = 3
    /\ \E m \in {chan[receiver.source][k] : k \in DOMAIN chan[receiver.source]} :
          /\ MpiRecv(receiver.source, receiver.tag_base + 3, m)
          /\ IF receiver.tag_base = WORD_TAG_BASE
             THEN /\ global_words' = ht_put(global_words, receiver.buffer, m.data)
                  /\ UNCHANGED global_artists
             ELSE /\ global_artists' = ht_put(global_artists, receiver.buffer, m.data)
                  /\ UNCHANGED global_words
          /\ IF receiver.i + 1 < receiver.entry_count
             THEN /\ receiver' = [receiver EXCEPT !.i = @ + 1, !.step = 1]
                  /\ UNCHANGED <<pc, history>>
             ELSE RecvReturns
    /\ RecvUnchanged

\* Lines 1027-1059: rank 0 writes the two reports and frees the tables.
Export ==
    /\ pc[0] = "export"
    /\ reports' = [reports EXCEPT
           !.words = write_table_csv(global_words, WordHeader, DEFAULT_WORD_LIMIT),
           !.artists = write_table_csv(global_artists, ArtistHeader, DEFAULT_ARTIST_LIMIT)]
    /\ global_words' = ht_free(global_words)
    /\ global_artists' = ht_free(global_artists)
    /\ Goto(0, "barrier2")
    /\ UNCHANGED pipeOthers
    /\ UNCHANGED <<dataset, world_size, text_file, artist_file, text_range,
                   artist_range, word_counts, artist_counts, local_totals,
                   global_totals, chan, sender, receiver, arrived, history>>

\* Line 1067: a rank joins the barrier after the collection.
EnterEndBarrier(r) ==
    /\ pc[r] = "barrier2"
    /\ arrived' = [arrived EXCEPT !.barrier2 = @ \cup {r}]
    /\ Goto(r, "in_barrier2")
    /\ UNCHANGED pipeOthers
    /\ UNCHANGED <<dataset, world_size, text_file, artist_file, text_range,
                   artist_range, word_counts, artist_counts, local_totals,
                   global_totals, global_words, global_artists, chan, sender,
                   receiver, reports, history>>

\* LeaveEndBarrier without the wait for the other ranks.
LeaveEndBarrierAlone(r) ==
    /\ pc[r] = "in_barrier2"
    /\ Goto(r, "metrics")
    /\ UNCHANGED pipeOthers
    /\ UNCHANGED <<dataset, world_size, text_file, artist_file, text_range,
                   artist_range, word_counts, artist_counts, local_totals,
                   global_totals, global_words, global_artists, chan, sender,
                   receiver, arrived, reports, history>>

\* Lines 1067-1068: the barrier releases the rank, which takes total_time.
LeaveEndBarrier(r) ==
    /\ pc[r] = "in_barrier2"
    /\ arrived.barrier2 = Ranks
    /\ Goto(r, "metrics")
    /\ UNCHANGED pipeOthers
    /\ UNCHANGED <<dataset, world_size, text_file, artist_file, text_range,
                   artist_range, word_counts, artist_counts, local_totals,
                   global_totals, global_words, global_artists, chan, sender,
                   receiver, arrived, reports, history>>

\* Lines 1077-1082 and 1111 on a rank other than 0: it contributes its two
\* durations to the six reductions and finalizes.
ContributeMetrics(r) ==
    /\ r # 0
    /\ pc[r] = "metrics"
    /\ arrived' = [arrived EXCEPT !.metrics = @ \cup {r}]
    /\ Goto(r, "done")
    /\ UNCHANGED pipeOthers
    /\ UNCHANGED <<dataset, world_size, text_file, artist_file, text_range,
                   artist_range, word_counts, artist_counts, local_totals,
                   global_totals, global_words, global_artists, chan, sender,
                   receiver, reports, history>>

\* Lines 1077-1111 on rank 0: the reductions complete, the metrics file is
\* written (the durations are not modelled) and the rank finalizes.
WriteMetrics ==
    /\ pc[0] = "metrics"
    /\ arrived.metrics = Contributors
    /\ reports' = [reports EXCEPT !.metrics =
           <<[processes |-> world_size, total_songs |-> global_totals.songs,
              total_words |-> global_totals.words]>>]
    /\ Goto(0, "done")
    /\ UNCHANGED pipeOthers
    /\ UNCHANGED <<dataset, world_size, text_file, artist_file, text_range,
                   artist_range, word_counts, artist_counts, local_totals,
                   global_totals, global_words, global_artists, chan, sender,
                   receiver, arrived, history>>

Next ==
    \/ SplitColumns
    \/ \E r \in Ranks : Bcast(r)
    \/ \E r \in Ranks : EnterStartBarrier(r)
    \/ \E r \in Ranks : ComputeRanges(r)
    \/ \E r \in Ranks : ReadText(r)
    \/ \E r \in Ranks : ReadArtist(r)
    \/ \E r \in Ranks : ContributeTotals(r)
    \/ ReduceTotals
    \/ MergeOwn
    \/ \E r \in Ranks : SendCount(r)
    \/ \E r \in Ranks : SendLen(r)
    \/ \E r \in Ranks : SendKey(r)
    \/ \E r \in Ranks : SendValue(r)
    \/ RecvCount
    \/ RecvLen
    \/ RecvKey
    \/ RecvValue
    \/ Export
    \/ \E r \in Ranks : EnterEndBarrier(r)
    \/ \E r \in Ranks : LeaveEndBarrier(r)
    \/ \E r \in Ranks : ContributeMetrics(r)
    \/ WriteMetrics

\* The parts of the module that a specification does not run stay idle.
PipeIdle ==
    /\ dataset = <<>> /\ world_size = 0 /\ text_file = <<>> /\ artist_file = <<>>
    /\ pc = <<>> /\ text_range = <<>> /\ artist_range = <<>>
    /\ word_counts = <<>> /\ artist_counts = <<>> /\ local_totals = <<>>
    /\ global_totals = <<>> /\ global_words = NoTable /\ global_artists = NoTable
    /\ chan = <<>> /\ sender = <<>> /\ receiver = IdleReceiver /\ arrived = <<>>
    /\ reports = <<>> /\ history = <<>>
PartIdle == part = <<>>
HtIdle == ht = <<>>
CsvIdle == csv = <<>>
MsIdle == msp = <<>>

Init == PipeInit /\ PartIdle /\ HtIdle /\ CsvIdle /\ MsIdle
Spec == Init /\ [][Next]_vars

----------------------------------------------------------------------------
(* The range arithmetic of main() for arbitrary file sizes *)

MaxFileSize == 12

\* A column file of file_size bytes whose header line is header_len bytes
\* long (a header line holds at least one byte), split over `size` ranks;
\* range[r] is set once rank r has executed lines 866-882.
PartInit ==
    /\ part \in {[file_size |-> f, header_len |-> h, size |-> n,
                  range |-> [r \in {} |-> NoRange]] :
                 f \in 1..MaxFileSize, h \in 1..MaxFileSize, n \in 1..MaxWorkers}
    /\ part.header_len <= part.file_size

PartCompute(r) ==
    /\ r \notin DOMAIN part.range
    /\ part' = [part EXCEPT !.range =
           [q \in DOMAIN part.range \cup {r} |->
               IF q = r
               THEN [start |-> LocalStart(part.file_size, part.header_len, part.size, r),
                     end   |-> LocalEnd(part.file_size, part.header_len, part.size, r),
                     pos   |-> 0]
               ELSE part.range[q]]]
    /\ UNCHANGED <<pipeVars, ht, csv, msp>>

PartNext == \E r \in 0..(part.size - 1) : PartCompute(r)

InitPart == PartInit /\ PipeIdle /\ HtIdle /\ CsvIdle /\ MsIdle
SpecPart == InitPart /\ [][PartNext]_vars

PartAllComputed == DOMAIN part.range = 0..(part.size - 1)

\* The ranks whose range [start, end) holds byte offset b.
PartOwners(b) ==
    {r \in DOMAIN part.range : part.range[r].start <= b /\ b < part.range[r].end}

\* C1: once every rank has computed its range, every byte offset of the data
\* region [H, F) lies in exactly one range and no other offset lies in any
\* (no gap, no overlap, union exactly [H, F)); each range ends where the
\* next rank's begins; the first begins at H and the last ends at F, so a
\* single rank owns [H, F).
PartitionExact ==
    PartAllComputed =>
        /\ \A b \in 0..(MaxFileSize + 1) :
              Cardinality(PartOwners(b)) =
                  IF part.header_len <= b /\ b < part.file_size THEN 1 ELSE 0
        /\ \A r \in 0..(part.size - 2) : part.range[r].end = part.range[r + 1].start
        /\ \A r \in 0..(part.size - 1) : part.range[r].start <= part.range[r].end
        /\ part.range[0].start = part.header_len
        /\ part.range[part.size - 1].end = part.file_size

\* Three ranks, a data region that does not divide evenly, all ranges computed.
PartitionUneven ==
    /\ PartAllComputed
    /\ part.size = 3
    /\ (part.file_size - part.header_len) % 3 = 2

----------------------------------------------------------------------------
(* The reports of a run with one rank, as a function of the dataset *)

\* Lines 918-943 on the only rank (rank = world_size - 1): the text loop
\* from `pos` to the end of the file.
RECURSIVE SoloTextLoop(_, _, _, _)
SoloTextLoop(f, pos, table, total) ==
    LET rec == read_csv_record(f, pos)
    IN  IF rec.len < 0
        THEN [table |-> table, total |-> total]
        ELSE LET counted == CountLyrics(table, total, rec)
             IN  SoloTextLoop(f, rec.pos, counted.table, counted.total)

\* Lines 971-998 on the only rank: the artist loop from `pos` to the end.
RECURSIVE SoloArtistLoop(_, _, _)
SoloArtistLoop(f, pos, table) ==
    LET rec == read_csv_record(f, pos)
    IN  IF rec.len < 0
        THEN table
        ELSE SoloArtistLoop(f, rec.pos, CountArtist(table, rec))

\* main() with world_size = 1: split, count both columns from the end of
\* the header, merge the rank's own tables, export.
SoloWordTable(d) ==
    LET f     == split_dataset_columns(d).text
        words == SoloTextLoop(f, compute_header_length(f), ht_init(WORD_TABLE_CAPACITY), 0).table
    IN  ht_merge(ht_init(words.capacity), words)

SoloArtistTable(d) ==
    LET f       == split_dataset_columns(d).artist
        artists == SoloArtistLoop(f, compute_header_length(f), ht_init(ARTIST_TABLE_CAPACITY))
    IN  ht_merge(ht_init(artists.capacity), artists)

SoloReports(d) ==
    [words   |-> write_table_csv(SoloWordTable(d), WordHeader, DEFAULT_WORD_LIMIT),
     artists |-> write_table_csv(SoloArtistTable(d), ArtistHeader, DEFAULT_ARTIST_LIMIT)]

ReportsWritten == reports.words # <<>> /\ reports.artists # <<>>

\* C2: for a fixed corpus the exported word and artist reports are the same
\* for 1, 2 and 3 ranks: whatever the number of ranks, the reports written
\* are those of the run with one rank.
ReportsIndependentOfWorkers ==
    ReportsWritten =>
        /\ reports.words = SoloReports(dataset).words
        /\ reports.artists = SoloReports(dataset).artists

----------------------------------------------------------------------------
(* Counting tables on their own: build, merge in any order, export *)

HtMaxParts == 3
HtMaxPuts == 2
HtMaxLimit == 2
HT_SMALL_CAPACITY == 8

\* The deltas of the ht_put calls that build the partial tables.
HtDeltas == {1, 2}

\* "a", which the seeded table holds too, "A" (same slot as "a" for every
\* capacity up to 65536), and "c".
HtKeys == {<<97>>, <<65>>, <<99>>}

\* A table that already counted "a", "d", "e", "f", "g", "h" once each: it
\* is at the load limit of its capacity, and so is a table it is merged into.
HtSeeded ==
    PutAll(ht_init(HT_SMALL_CAPACITY),
           <<[key |-> <<97>>, value |-> 1], [key |-> <<100>>, value |-> 1],
             [key |-> <<101>>, value |-> 1], [key |-> <<102>>, value |-> 1],
             [key |-> <<103>>, value |-> 1], [key |-> <<104>>, value |-> 1]>>)

\* Up to HtMaxParts partial tables, the first of them empty or seeded.
HtInit ==
    \E n \in 1..HtMaxParts :
        \E parts \in [1..n -> {ht_init(HT_SMALL_CAPACITY), HtSeeded}] :
            /\ \A p \in 2..n : parts[p] = ht_init(HT_SMALL_CAPACITY)
            /\ ht = [phase |-> "build", parts |-> parts, built |-> <<>>, live |-> {},
                       dest |-> NoTable, puts |-> 0, limit |-> 0, ranked |-> <<>>,
                       lines |-> <<>>]

\* ht_put(&parts[p], key, delta)
HtPut(p, key, delta) ==
    /\ ht.phase = "build"
    /\ ht.puts < HtMaxPuts
    /\ ht' = [ht EXCEPT !.parts[p] = ht_put(@, key, delta), !.puts = @ + 1]
    /\ UNCHANGED <<pipeVars, part, csv, msp>>

\* The partial tables are complete; the destination is initialised.
HtSeal ==
    /\ ht.phase = "build"
    /\ ht' = [ht EXCEPT !.phase = "merge", !.built = ht.parts,
                        !.live = DOMAIN ht.parts,
                        !.dest = ht_init(HT_SMALL_CAPACITY)]
    /\ UNCHANGED <<pipeVars, part, csv, msp>>

\* ht_merge(&dest, &parts[p])
HtMerge(p) ==
    /\ ht.phase = "merge"
    /\ p \in ht.live
    /\ ht' = [ht EXCEPT !.dest = ht_merge(@, ht.parts[p]), !.live = @ \ {p}]
    /\ UNCHANGED <<pipeVars, part, csv, msp>>

\* write_table_csv(&dest, path, "word", limit)
HtExport(limit) ==
    /\ ht.phase = "merge"
    /\ ht.live = {}
    /\ ht' = [ht EXCEPT !.phase = "done", !.limit = limit,
                        !.ranked = RankedEntries(ht.dest, limit),
                        !.lines = write_table_csv(ht.dest, WordHeader, limit)]
    /\ UNCHANGED <<pipeVars, part, csv, msp>>

HtNext ==
    \/ \E p \in DOMAIN ht.parts : \E key \in HtKeys : \E delta \in HtDeltas :
           HtPut(p, key, delta)
    \/ HtSeal
    \/ \E p \in DOMAIN ht.parts : HtMerge(p)
    \/ \E limit \in 0..HtMaxLimit : HtExport(limit)

InitHT == HtInit /\ PipeIdle /\ PartIdle /\ CsvIdle /\ MsIdle
SpecHT == InitHT /\ [][HtNext]_vars

\* ht_merge of the listed tables into dest, in the order of the list.
RECURSIVE MergeSeq(_, _)
MergeSeq(dest, tables) ==
    IF tables = <<>> THEN dest
    ELSE ht_merge(MergeSeq(dest, SubSeq(tables, 1, Len(tables) - 1)), tables[Len(tables)])

\* The count of key k in mapping m, zero when m does not hold k.
CountIn(m, k) == IF k \in DOMAIN m THEN m[k] ELSE 0

RECURSIVE SumCounts(_, _, _)
SumCounts(ms, k, n) == IF n = 0 THEN 0 ELSE SumCounts(ms, k, n - 1) + CountIn(ms[n], k)

\* The key-wise sum of the mappings ms[1], ..., ms[Len(ms)].
KeywiseSum(ms) ==
    [k \in UNION {DOMAIN ms[i] : i \in DOMAIN ms} |-> SumCounts(ms, k, Len(ms))]

HtAllMerged == ht.phase # "build" /\ ht.live = {}

\* C3: whatever the order in which the partial tables were merged into the
\* initially empty destination, the destination ends with the
\* key-to-count mapping that merging them in index order gives: the same
\* key set and, for every key, the sum of its counts over the partial tables.
MergeOrderIrrelevant ==
    HtAllMerged =>
        /\ Contents(ht.dest) = Contents(MergeSeq(ht_init(HT_SMALL_CAPACITY), ht.built))
        /\ Contents(ht.dest) =
               KeywiseSum([i \in DOMAIN ht.built |-> Contents(ht.built[i])])

\* All partial tables merged in an order that left the destination with a
\* slot layout other than the index-order merge's, after a resize, with a key
\* counted by two partial tables.
MergedInAnotherOrder ==
    /\ HtAllMerged
    /\ ht.dest # MergeSeq(ht_init(HT_SMALL_CAPACITY), ht.built)
    /\ ht.dest.capacity > HT_SMALL_CAPACITY
    /\ \E i \in DOMAIN ht.built : \E j \in DOMAIN ht.built :
           i # j /\ DOMAIN Contents(ht.built[i]) \cap DOMAIN Contents(ht.built[j]) # {}

\* The keys of S in ascending strcmp order.
RECURSIVE KeysAscending(_)
KeysAscending(S) ==
    IF S = {} THEN <<>>
    ELSE LET k == CHOOSE k \in S : \A j \in S : StrCmp(k, j) <= 0
         IN  <<k>> \o KeysAscending(S \ {k})

\* The table holding mapping m that a single series of ht_put calls in
\* ascending key order builds.
CanonicalTable(m) ==
    LET ks == KeysAscending(DOMAIN m)
    IN  PutAll(ht_init(HT_SMALL_CAPACITY),
               [i \in 1..Len(ks) |-> [key |-> ks[i], value |-> m[ks[i]]]])

HtExported == ht.phase = "done"

\* C5: the entries are written in descending order of count, entries of
\* equal count in ascending strcmp order of key, one line per entry; and the
\* lines written are those written for the table of the same key-to-count
\* mapping built in ascending key order, so they depend on the mapping only
\* and not on the order of insertions and merges that built the table.
ExportRankedAndDeterministic ==
    HtExported =>
        /\ \A i \in 1..(Len(ht.ranked) - 1) :
               \/ ht.ranked[i].value > ht.ranked[i + 1].value
               \/ /\ ht.ranked[i].value = ht.ranked[i + 1].value
                  /\ StrCmp(ht.ranked[i].key, ht.ranked[i + 1].key) < 0
        /\ Len(ht.lines) = Len(ht.ranked) + 1
        /\ \A i \in 1..Len(ht.ranked) :
               ht.lines[i + 1] = write_csv_entry(ht.ranked[i].key, ht.ranked[i].value)
        /\ ht.lines = write_table_csv(CanonicalTable(Contents(ht.dest)), WordHeader, ht.limit)

\* An export of a table whose slot layout differs from the canonical
\* table's, with two written entries of equal count.
ExportedWithTie ==
    /\ HtExported
    /\ ht.dest # CanonicalTable(Contents(ht.dest))
    /\ \E i \in 1..(Len(ht.ranked) - 1) : ht.ranked[i].value = ht.ranked[i + 1].value

\* C6: with limit L the export writes the first L ranked entries when
\* 0 < L < table size and all of them when L = 0 or L >= table size: the
\* data lines number min(L, size) for L > 0 and size for L = 0, and they are
\* the leading entries of the full ranking.
ExportHonoursLimit ==
    HtExported =>
        LET size  == Cardinality(DOMAIN Contents(ht.dest))
            count == IF ht.limit > 0 THEN Min(ht.limit, size) ELSE size
        IN  /\ Len(ht.lines) - 1 = count
            /\ ht.ranked = SubSeq(qsort(ht_to_array(ht.dest)), 1, count)
            /\ ht.limit = 0 \/ ht.limit >= size => Len(ht.ranked) = size
            /\ 0 < ht.limit /\ ht.limit < size => Len(ht.ranked) = ht.limit

\* An export that the limit cuts short.
ExportTruncated ==
    /\ HtExported
    /\ 0 < ht.limit
    /\ ht.limit < Cardinality(DOMAIN Contents(ht.dest))
    /\ Len(ht.lines) = ht.limit + 1

----------------------------------------------------------------------------
(* The collection at rank 0 *)

\* The number of times the table (rank, tag_base) was merged at rank 0.
TimesMerged(rank, tag_base) ==
    Cardinality({i \in DOMAIN history.merged : history.merged[i] = <<rank, tag_base>>})

\* The partial word (artist) mappings of ranks 0 .. world_size-1 as a list.
PartialWords == [i \in 1..world_size |-> history.partial[i - 1].words]
PartialArtists == [i \in 1..world_size |-> history.partial[i - 1].artists]

\* Rank 0 has left the receive loop and has not yet exported.
ExchangeComplete == pc # <<>> /\ pc[0] = "export"

\* C4: rank 0 never merges a table of any rank twice; once the exchange is
\* over it has merged its own word and artist tables once each and exactly
\* one word table and one artist table of each rank 1..N-1, no message is
\* left in flight, and the global count of every key is the sum of that
\* key's counts over the N partial tables.
EveryPartialMergedOnce ==
    /\ \A r \in Ranks : \A tag_base \in {WORD_TAG_BASE, ARTIST_TAG_BASE} :
           TimesMerged(r, tag_base) <= 1
    /\ ExchangeComplete =>
          /\ \A r \in Ranks : \A tag_base \in {WORD_TAG_BASE, ARTIST_TAG_BASE} :
                 TimesMerged(r, tag_base) = 1
          /\ Len(history.merged) = 2 * world_size
          /\ \A r \in Ranks : chan[r] = <<>>
          /\ Contents(global_words) = KeywiseSum(PartialWords)
          /\ Contents(global_artists) = KeywiseSum(PartialArtists)

\* Three ranks, the exchange over, and a word counted by two ranks.
CollectedFromThree ==
    /\ ExchangeComplete
    /\ world_size = 3
    /\ \E q \in Ranks : \E r \in Ranks :
           /\ q # r
           /\ DOMAIN history.partial[q].words \cap DOMAIN history.partial[r].words # {}

----------------------------------------------------------------------------
(* An exported report read back with the record reader *)

CsvMaxLen == 5

\* 'a', space, double quote, comma, line feed, carriage return.
CsvAlphabet == {97, 32, QUOTE, COMMA, LF, CR}

\* ",s,x,t\n": the rest of a dataset row after its artist field.
RowRest == <<COMMA, 115, COMMA, 120, COMMA, 116, LF>>

\* A dataset of two rows: one whose first bytes are arbitrary, and RowA1.
CsvInit ==
    \E field \in SeqsUpTo(CsvAlphabet, CsvMaxLen) :
        csv = [phase |-> "input", dataset |-> HeaderRow \o field \o RowRest \o RowA1,
               table |-> NoTable, file |-> <<>>, pos |-> 0, parsed |-> <<>>]

\* main() on one rank up to the merged artist table.
CsvCount ==
    /\ csv.phase = "input"
    /\ csv' = [csv EXCEPT !.phase = "counted", !.table = SoloArtistTable(csv.dataset)]
    /\ UNCHANGED <<pipeVars, part, ht, msp>>

\* write_table_csv of the artist table: the bytes of the report file.
CsvExport ==
    /\ csv.phase = "counted"
    /\ csv' = [csv EXCEPT !.phase = "exported",
                          !.file = Flatten(write_table_csv(csv.table, ArtistHeader,
                                                           DEFAULT_ARTIST_LIMIT))]
    /\ UNCHANGED <<pipeVars, part, ht, msp>>

\* read_csv_record of the report's header line.
CsvReadHeader ==
    /\ csv.phase = "exported"
    /\ csv' = [csv EXCEPT !.phase = "reading", !.pos = read_csv_record(csv.file, 0).pos]
    /\ UNCHANGED <<pipeVars, part, ht, msp>>

\* The first field of a record: the bytes before the first comma outside
\* quotes, found as parse_csv_line finds it.
FirstField(buffer) ==
    LET cuts == FieldCuts(buffer, 0, FALSE, <<>>)
    IN  IF cuts = <<>> THEN buffer ELSE Slice(buffer, 0, cuts[1])

\* read_csv_record of the next record of the report, its line terminators
\* stripped, and duplicate_field(first field, 0).
CsvReadEntry ==
    /\ csv.phase = "reading"
    /\ LET rec == read_csv_record(csv.file, csv.pos)
       IN  IF rec.len < 0
           THEN csv' = [csv EXCEPT !.phase = "done"]
           ELSE csv' = [csv EXCEPT
                    !.pos = rec.pos,
                    !.parsed = Append(@, duplicate_field(FirstField(StripEol(rec.buf)), FALSE))]
    /\ UNCHANGED <<pipeVars, part, ht, msp>>

CsvNext == CsvCount \/ CsvExport \/ CsvReadHeader \/ CsvReadEntry

InitCsv == CsvInit /\ PipeIdle /\ PartIdle /\ HtIdle /\ MsIdle
SpecCsv == InitCsv /\ [][CsvNext]_vars

\* The keys of the exported entries, in the order written.
CsvWrittenKeys ==
    LET entries == RankedEntries(csv.table, DEFAULT_ARTIST_LIMIT)
    IN  [i \in 1..Len(entries) |-> entries[i].key]

\* C7: every key the program stored, exported by write_csv_entry and read
\* back (read_csv_record delimits the record, duplicate_field without quote
\* preservation unescapes its first field), comes back unchanged: the keys
\* read from the report are the keys written, in the same order.
ExportRoundTrips ==
    csv.phase = "done" => csv.parsed = CsvWrittenKeys

\* A report read back to its end that holds a key with a double quote and
\* a key with a comma or a line break.
RoundTripOfQuotedKey ==
    /\ csv.phase = "done"
    /\ \E i \in DOMAIN csv.parsed : \E j \in DOMAIN csv.parsed[i] :
           csv.parsed[i][j] = QUOTE
    /\ \E i \in DOMAIN csv.parsed : \E j \in DOMAIN csv.parsed[i] :
           csv.parsed[i][j] \in {COMMA, LF}

----------------------------------------------------------------------------
(* The scenario corpus and the empty corpus *)

\* C8: for the corpus of a header and the rows (A,s1,x,hello world),
\* (B,s2,x,hello there), (A,s3,x,world) run on one rank, the word report
\* is the header line, then "hello",2, then "world",2, then "there",1, and
\* the artist report is the header line, then "A",2, then "B",1.
ScenarioReports ==
    (dataset = ScenarioDataset /\ world_size = 1 /\ ReportsWritten) =>
        /\ reports.words =
               << <<119, 111, 114, 100, 44, 99, 111, 117, 110, 116, 10>>,
                  <<34, 104, 101, 108, 108, 111, 34, 44, 50, 10>>,
                  <<34, 119, 111, 114, 108, 100, 34, 44, 50, 10>>,
                  <<34, 116, 104, 101, 114, 101, 34, 44, 49, 10>> >>
        /\ reports.artists =
               << <<97, 114, 116, 105, 115, 116, 44, 99, 111, 117, 110, 116, 10>>,
                  <<34, 65, 34, 44, 50, 10>>,
                  <<34, 66, 34, 44, 49, 10>> >>

\* The scenario corpus, one rank, both reports written.
ScenarioExported ==
    dataset = ScenarioDataset /\ world_size = 1 /\ ReportsWritten /\ Len(reports.words) = 4

\* The column files exist and neither holds a byte after its header line
\* (F <= H for both).
EmptyData ==
    /\ text_file # <<>> /\ artist_file # <<>>
    /\ get_file_size(text_file) <= compute_header_length(text_file)
    /\ get_file_size(artist_file) <= compute_header_length(artist_file)

AllDone == \A r \in Ranks : pc[r] = "done"

\* C9 as stated: with an empty data region the run stops with a "no data"
\* condition and no rank enters the counting, exchange, merge or export
\* phases.
EmptyDataNotProcessed ==
    EmptyData =>
        \A r \in Ranks :
            pc[r] \notin {"read_text", "read_artist",
                          "reduce", "send", "merge", "recv", "export"}

\* C9, amended: with an empty data region the run is not cut short.  No
\* rank finalizes before every rank has joined the barrier that follows the
\* collection; a contributor joins it only after taking part in the
\* reduction and sending both its tables; rank 0 joins it only after it
\* merged two tables per rank and wrote both reports.
EmptyDataRunsEveryPhase ==
    EmptyData =>
        /\ \A r \in Ranks : pc[r] = "done" => arrived.barrier2 = Ranks
        /\ \A r \in arrived.barrier2 :
               IF r = 0
               THEN ReportsWritten /\ Len(history.merged) = 2 * world_size
               ELSE r \in arrived.reduce /\ sender[r] = IdleSender

\* Three ranks, no data, and rank 0 through the exchange and about to export.
EmptyDataCollected ==
    EmptyData /\ world_size = 3 /\ pc[0] = "export" /\ Len(history.merged) = 6

\* A rank's ranges are computed once it has left the start barrier.
RangesComputed(r) == pc[r] \notin {"split", "bcast", "barrier1", "in_barrier1"}

EmptyRangesNothingCounted ==
    /\ \A r \in Ranks :
           /\ RangesComputed(r) =>
                 /\ text_range[r].start = compute_header_length(text_file)
                 /\ text_range[r].end = text_range[r].start
                 /\ artist_range[r].start = compute_header_length(artist_file)
                 /\ artist_range[r].end = artist_range[r].start
           /\ word_counts[r].size = 0 /\ artist_counts[r].size = 0
           /\ local_totals[r] = [words |-> 0, songs |-> 0]
    /\ global_words.size = 0 /\ global_artists.size = 0
    /\ global_totals = [words |-> 0, songs |-> 0]
    /\ reports.words # <<>> => Len(reports.words) = 1
    /\ reports.artists # <<>> => Len(reports.artists) = 1

\* The position of a label on a rank's way through main().
PcRank(label) ==
    CASE label = "split" -> 0
      [] label = "bcast" -> 1
      [] label = "barrier1" -> 2
      [] label = "in_barrier1" -> 3
      [] label = "read_text" -> 5
      [] label = "read_artist" -> 7
      [] label = "reduce" -> 8
      [] label \in {"merge", "send"} -> 9
      [] label = "recv" -> 10
      [] label = "export" -> 11
      [] label = "barrier2" -> 12
      [] label = "in_barrier2" -> 13
      [] label = "metrics" -> 14
      [] label = "done" -> 15

\* A bound on the steps the run can still take when no loop finds a record:
\* the labels every rank has ahead, the tables a contributor has yet to
\* send, the tables rank 0 has yet to merge.
StepsLeft ==
    SumOver([r \in Ranks |->
                4 * (PcRank("done") - PcRank(pc[r]))
                + (IF pc[r] = "send" /\ sender[r].tag_base = WORD_TAG_BASE THEN 1 ELSE 0)],
            world_size)
    + (2 * world_size - Len(history.merged))

\* C10: with an empty data region (F = H) and 1..MaxWorkers ranks, every
\* rank's two ranges are empty, no rank counts a record or a token, and a
\* report that is written holds the header line and no entry.  Every rank
\* reaches MPI_Finalize: as long as some rank has not finalized or a report
\* is unwritten some rank can take a step (no deadlock, no early stop), and
\* every step lowers a bound on the steps left (no endless loop).
EmptyDataTerminatesClean ==
    /\ [](EmptyData => /\ EmptyRangesNothingCounted
                       /\ (AllDone /\ ReportsWritten) \/ ENABLED Next)
    /\ [][EmptyData => StepsLeft' < StepsLeft /\ StepsLeft' >= 0]_vars

\* Three ranks, no data, every rank finalized and header-only reports.
EmptyDataAllDone ==
    /\ EmptyData /\ world_size = 3 /\ AllDone
    /\ Len(reports.words) = 1 /\ Len(reports.artists) = 1

----------------------------------------------------------------------------
(* The pipeline on corpora that hold records the parser rejects *)

RecMaxRows == 2
RecMaxWorkers == 2

\* "D,s5,delta\n": a record of three fields
RowShort == <<68, 44, 115, 53, 44, 100, 101, 108, 116, 97, 10>>
\* "E,s6,x,alpha,gamma\n": a record of five fields
RowLong == <<69, 44, 115, 54, 44, 120, 44, 97, 108, 112, 104, 97, 44,
             103, 97, 109, 109, 97, 10>>
\* 'F,s7,x,"omega psi' and then the end of the file: the quote that opens
\* the text field is never closed
RowOpenText == <<70, 44, 115, 55, 44, 120, 44, 34, 111, 109, 101, 103, 97, 32,
                 112, 115, 105>>
\* '"G,s8,x,sigma' and then the end of the file: the quote that opens the
\* first field is never closed
RowOpenArtist == <<34, 71, 44, 115, 56, 44, 120, 44, 115, 105, 103, 109, 97>>

\* A corpus: up to RecMaxRows complete records, no record twice, and
\* possibly a last record that the end of the file cuts inside a quote.
RecCases ==
    {[body |-> b, tail |-> t] :
        b \in {q \in SeqsUpTo({RowA1, RowShort, RowLong}, RecMaxRows) :
                  \A i \in DOMAIN q : \A j \in DOMAIN q : q[i] = q[j] => i = j},
        t \in {<<>>, RowOpenText, RowOpenArtist}}

RecBytes(c) == HeaderRow \o Flatten(c.body) \o c.tail

RecInit ==
    /\ world_size \in 1..RecMaxWorkers
    /\ dataset \in {RecBytes(c) : c \in RecCases}
    /\ text_file = <<>>
    /\ artist_file = <<>>
    /\ pc = [r \in Ranks |-> IF r = 0 THEN "split" ELSE "bcast"]
    /\ text_range = [r \in Ranks |-> NoRange]
    /\ artist_range = [r \in Ranks |-> NoRange]
    /\ word_counts = [r \in Ranks |-> NoTable]
    /\ artist_counts = [r \in Ranks |-> NoTable]
    /\ local_totals = [r \in Ranks |-> [words |-> 0, songs |-> 0]]
    /\ global_totals = [words |-> 0, songs |-> 0]
    /\ global_words = NoTable
    /\ global_artists = NoTable
    /\ chan = [r \in Ranks |-> <<>>]
    /\ sender = [r \in Ranks |-> IdleSender]
    /\ receiver = IdleReceiver
    /\ arrived = [bcast |-> FALSE, barrier1 |-> {}, reduce |-> {},
                  barrier2 |-> {}, metrics |-> {}]
    /\ reports = [words |-> <<>>, artists |-> <<>>, metrics |-> <<>>]
    /\ history = [merged |-> <<>>,
                  partial |-> [r \in Ranks |-> [words |-> NoMapping, artists |-> NoMapping]]]

InitRec == RecInit /\ PartIdle /\ HtIdle /\ CsvIdle /\ MsIdle
SpecRec == InitRec /\ [][Next]_vars

\* The records the dataset of this run was put together from.
RecCase == CHOOSE c \in RecCases : dataset = RecBytes(c)

\* The records of q other than those in `dropped`.
RecWithout(q, dropped) == SelectSeq(q, LAMBDA row : row \notin dropped)

\* Rank 0 has left split_dataset_columns.
SplitDone == pc[0] # "split"

\* Some table of the run counts `key` as a word (as an artist).
CountedAsWord(key) ==
    \/ \E r \in Ranks : key \in DOMAIN Contents(word_counts[r])
    \/ key \in DOMAIN Contents(global_words)
CountedAsArtist(key) ==
    \/ \E r \in Ranks : key \in DOMAIN Contents(artist_counts[r])
    \/ key \in DOMAIN Contents(global_artists)

\* The line a complete record of four or more fields adds to the artist
\* and to the text column file.
ArtistLineOf(row) == IF row = RowA1 THEN <<65, LF>> ELSE <<69, LF>>
TextLineOf(row) ==
    IF row = RowA1 THEN <<104, 101, 108, 108, 111, 32, 119, 111, 114, 108, 100, LF>>
    ELSE <<97, 108, 112, 104, 97, COMMA, 103, 97, 109, 109, 97, LF>>

UnterminatedFinalRecordDropped ==
    (SplitDone /\ RecCase.tail # <<>>) =>
        LET without == split_dataset_columns(HeaderRow \o Flatten(RecCase.body))
        IN  /\ artist_file = without.artist
            /\ text_file = without.text
            /\ ~CountedAsArtist(<<70>>)
            /\ ~CountedAsWord(<<111, 109, 101, 103, 97>>)
            /\ ~CountedAsWord(<<112, 115, 105>>)
            /\ ~CountedAsWord(<<115, 105, 103, 109, 97>>)

----------------------------------------------------------------------------
(* src/src/mpi_spotify.c: rank 0 reads the file and deals its lines out *)

MsMaxLines == 3

TAG_LINE_LENGTH == 1
TAG_LINE_DATA == 2
TAG_WORD_COUNT == 3
TAG_ARTIST_COUNT == 4
INITIAL_CAPACITY == 16384

\* A line of the file is modelled by what process_line takes from it: the
\* artist and the one token of its lyrics.  "x" and "y".
MsKeys == {<<120>>, <<121>>}
MsLines == {[artist |-> a, word |-> w] : a \in MsKeys, w \in {<<120>>}}

\* strlen(line) of a line "<artist>,s,l,<word>\n".
MsLineLength(line) == Len(line.artist) + Len(line.word) + 6

\* hashmap.c: hash_string (djb2) modulo the number of buckets.  The number
\* of buckets is a power of two (the maps of the model never grow), so the
\* hash is carried modulo it.  The maps never hold two keys of one bucket.
RECURSIVE Djb2(_, _)
Djb2(str, hash) ==
    IF str = <<>> THEN hash
    ELSE Djb2(Tail(str), (hash * 33 + Head(str)) % INITIAL_CAPACITY)

hashmap_bucket(key) == Djb2(key, 5381) % INITIAL_CAPACITY

\* hashmap_increment: a HashMap is modelled by its key-to-value mapping.
hashmap_increment(map, key, delta) ==
    [k \in DOMAIN map \cup {key} |->
        IF k = key THEN (IF k \in DOMAIN map THEN map[k] ELSE 0) + delta ELSE map[k]]

hashmap_size(map) == Cardinality(DOMAIN map)

\* hashmap_to_array: the entries in bucket order.
RECURSIVE MsKeysByBucket(_)
MsKeysByBucket(S) ==
    IF S = {} THEN <<>>
    ELSE LET k == CHOOSE k \in S : \A j \in S : hashmap_bucket(k) <= hashmap_bucket(j)
         IN  <<k>> \o MsKeysByBucket(S \ {k})

hashmap_to_array(map) ==
    LET ks == MsKeysByBucket(DOMAIN map)
    IN  [i \in 1..Len(ks) |-> [key |-> ks[i], value |-> map[ks[i]]]]

\* The messages of one worker that MPI holds for rank 0 before a send of
\* the worker blocks: enough for a worker to send both its maps before
\* rank 0 posts its first receive.
MsUpCap == 11

MsRanks == 0..(msp.size - 1)
MsWorkers == 1..(msp.size - 1)

MsIdleSend == [tag_base |-> 0, i |-> 0, step |-> 0]
MsIdleRecv == [source |-> 0, tag_base |-> 0, step |-> 0, entry_count |-> 0,
               i |-> 0, key_length |-> 0, key |-> <<>>]

\* After MPI_Init and the two hashmap_init calls.  file_ok is the outcome
\* of fopen(csv_path) on rank 0; file holds the lines after the header.
MsInit ==
    \E n \in 1..MaxWorkers : \E ok \in BOOLEAN : \E f \in SeqsUpTo(MsLines, MsMaxLines) :
        msp = [size |-> n, file_ok |-> ok, file |-> f, line_index |-> 0,
               line |-> <<>>, dest |-> 0, length |-> [r \in 0..(n - 1) |-> 0],
               pc |-> [r \in 0..(n - 1) |-> IF r = 0 THEN "open" ELSE "recv_length"],
               down |-> [r \in 1..(n - 1) |-> <<>>],
               up |-> [r \in 1..(n - 1) |-> <<>>],
               word_map |-> [r \in 0..(n - 1) |-> NoMapping],
               artist_map |-> [r \in 0..(n - 1) |-> NoMapping],
               snd |-> [r \in 1..(n - 1) |-> MsIdleSend],
               rcv |-> MsIdleRecv,
               reduced |-> {}]

MsOthers == <<pipeVars, part, ht, csv>>

\* process_line on rank r.
process_line(m, r, line) ==
    [m EXCEPT !.artist_map[r] = IF line.artist # <<>>
                                THEN hashmap_increment(@, line.artist, 1) ELSE @,
              !.word_map[r] = hashmap_increment(@, line.word, 1)]

\* Lines 266-277: fopen on rank 0; on failure perror and, with no other
\* rank to notify, MPI_Finalize and return EXIT_FAILURE.
MsOpen ==
    /\ msp.pc[0] = "open"
    /\ msp' = IF msp.file_ok THEN [msp EXCEPT !.pc[0] = "read_line"]
              ELSE IF msp.size = 1 THEN [msp EXCEPT !.pc[0] = "exit_failure"]
              ELSE [msp EXCEPT !.pc[0] = "broadcast_failure", !.dest = 1]
    /\ UNCHANGED MsOthers

\* Lines 236-241 and 273-276: one MPI_Send of broadcast_failure; after the
\* last, hashmap_free, MPI_Finalize and return EXIT_FAILURE.
MsBroadcastFailure ==
    /\ msp.pc[0] = "broadcast_failure"
    /\ Len(msp.down[msp.dest]) < ChanCap
    /\ msp' = [msp EXCEPT
           !.down[msp.dest] = Append(@, [tag |-> TAG_LINE_LENGTH, data |-> -1]),
           !.dest = @ + 1,
           !.pc[0] = IF msp.dest + 1 < msp.size THEN "broadcast_failure" ELSE "exit_failure"]
    /\ UNCHANGED MsOthers

\* Lines 285-295: getline; a line for rank 0 is processed at once, for
\* another rank its length is to be sent; at the end of the file the
\* termination loop follows.
MsReadLine ==
    /\ msp.pc[0] = "read_line"
    /\ msp' =
         IF msp.file = <<>>
         THEN IF msp.size = 1 THEN [msp EXCEPT !.pc[0] = "reduce"]
              ELSE [msp EXCEPT !.pc[0] = "terminate", !.dest = 1]
         ELSE LET line == Head(msp.file)
                  target_rank == msp.line_index % msp.size
              IN  IF target_rank = 0
                  THEN [process_line(msp, 0, line) EXCEPT !.file = Tail(@),
                                                         !.line_index = @ + 1]
                  ELSE [msp EXCEPT !.file = Tail(@), !.line = line,
                                   !.dest = target_rank, !.pc[0] = "send_length"]
    /\ UNCHANGED MsOthers

\* Line 291: MPI_Send of the line's length.
MsSendLength ==
    /\ msp.pc[0] = "send_length"
    /\ Len(msp.down[msp.dest]) < ChanCap
    /\ msp' = [msp EXCEPT
           !.down[msp.dest] = Append(@, [tag |-> TAG_LINE_LENGTH,
                                         data |-> MsLineLength(msp.line)]),
           !.pc[0] = "send_data"]
    /\ UNCHANGED MsOthers

\* Lines 292-294: MPI_Send of the line's bytes, ++line_index.
MsSendData ==
    /\ msp.pc[0] = "send_data"
    /\ Len(msp.down[msp.dest]) < ChanCap
    /\ msp' = [msp EXCEPT
           !.down[msp.dest] = Append(@, [tag |-> TAG_LINE_DATA, data |-> msp.line]),
           !.line_index = @ + 1,
           !.pc[0] = "read_line"]
    /\ UNCHANGED MsOthers

\* Lines 300-303: one MPI_Send of the termination loop; after the last,
\* rank 0 turns to receive_map from rank 1.
MsTerminate ==
    /\ msp.pc[0] = "terminate"
    /\ Len(msp.down[msp.dest]) < ChanCap
    /\ msp' = [msp EXCEPT
           !.down[msp.dest] = Append(@, [tag |-> TAG_LINE_LENGTH, data |-> -1]),
           !.dest = @ + 1,
           !.pc[0] = IF msp.dest + 1 < msp.size THEN "terminate" ELSE "receive_map",
           !.rcv = IF msp.dest + 1 < msp.size THEN @
                   ELSE [MsIdleRecv EXCEPT !.source = 1, !.tag_base = TAG_WORD_COUNT]]
    /\ UNCHANGED MsOthers

\* Lines 305-310: a worker's MPI_Recv of a length; -1 ends its loop and it
\* goes on to send_map.
MsRecvLength(r) ==
    /\ msp.pc[r] = "recv_length"
    /\ LET at == FirstWithTag(msp.down[r], TAG_LINE_LENGTH, 1)
       IN  /\ at # 0
           /\ msp' = IF msp.down[r][at].data = -1
                     THEN [msp EXCEPT !.down[r] = Without(@, at),
                                      !.pc[r] = "send_map",
                                      !.snd[r] = [tag_base |-> TAG_WORD_COUNT, i |-> 0, step |-> 0]]
                     ELSE [msp EXCEPT !.down[r] = Without(@, at),
                                      !.length[r] = msp.down[r][at].data,
                                      !.pc[r] = "recv_data"]
    /\ UNCHANGED MsOthers

\* Lines 311-321: the MPI_Recv of the line's bytes, and process_line.
MsRecvData(r) ==
    /\ msp.pc[r] = "recv_data"
    /\ LET at == FirstWithTag(msp.down[r], TAG_LINE_DATA, 1)
       IN  /\ at # 0
           /\ msp' = [process_line(msp, r, msp.down[r][at].data) EXCEPT
                         !.down[r] = Without(@, at), !.pc[r] = "recv_length"]
    /\ UNCHANGED MsOthers

\* ---- send_map, one MPI_Send per action ----

MsSendingMap(r) ==
    IF msp.snd[r].tag_base = TAG_WORD_COUNT THEN msp.word_map[r] ELSE msp.artist_map[r]

\* msp after rank r's MPI_Send(dest = 0) of (tag, data).  The message
\* carries, as a ghost, the place in send_map it was sent from: the map
\* (its tag base), the field (0 count, 1 key length, 2 key, 3 value) and
\* the entry.
MsSent(r, tag, data) ==
    [msp EXCEPT !.up[r] = Append(@, [tag |-> tag, data |-> data,
                                     intent |-> <<msp.snd[r].tag_base, msp.snd[r].step,
                                                   msp.snd[r].i>>])]

\* send_map returned: lines 333-334 go on with the artist map, then with
\* the reductions.
MsSendReturns(m, r) ==
    IF msp.snd[r].tag_base = TAG_WORD_COUNT
    THEN [m EXCEPT !.snd[r] = [tag_base |-> TAG_ARTIST_COUNT, i |-> 0, step |-> 0]]
    ELSE [m EXCEPT !.snd[r] = MsIdleSend, !.pc[r] = "reduce"]

\* Lines 159-163: the entry count.
MsSendCount(r) ==
    /\ msp.pc[r] = "send_map"
    /\ msp.snd[r].step = 0
    /\ Len(msp.up[r]) < MsUpCap
    /\ LET entry_count == hashmap_size(MsSendingMap(r))
           sent == MsSent(r, msp.snd[r].tag_base, entry_count)
       IN  msp' = IF entry_count = 0 THEN MsSendReturns(sent, r)
                  ELSE [sent EXCEPT !.snd[r].i = 1, !.snd[r].step = 1]
    /\ UNCHANGED MsOthers

\* Lines 171-172: the key length of entry i.
MsSendKeyLength(r) ==
    /\ msp.pc[r] = "send_map"
    /\ msp.snd[r].step = 1
    /\ Len(msp.up[r]) < MsUpCap
    /\ msp' = [MsSent(r, msp.snd[r].tag_base + 1,
                      Len(hashmap_to_array(MsSendingMap(r))[msp.snd[r].i].key))
                  EXCEPT !.snd[r].step = 2]
    /\ UNCHANGED MsOthers

\* Line 173: the key bytes.
MsSendKey(r) ==
    /\ msp.pc[r] = "send_map"
    /\ msp.snd[r].step = 2
    /\ Len(msp.up[r]) < MsUpCap
    /\ msp' = [MsSent(r, msp.snd[r].tag_base + 2,
                      hashmap_to_array(MsSendingMap(r))[msp.snd[r].i].key)
                  EXCEPT !.snd[r].step = 3]
    /\ UNCHANGED MsOthers

\* Line 174: the value, and the loop's next entry.
MsSendValue(r) ==
    /\ msp.pc[r] = "send_map"
    /\ msp.snd[r].step = 3
    /\ Len(msp.up[r]) < MsUpCap
    /\ LET entries == hashmap_to_array(MsSendingMap(r))
           sent    == MsSent(r, msp.snd[r].tag_base + 3, entries[msp.snd[r].i].value)
       IN  msp' = IF msp.snd[r].i = Len(entries) THEN MsSendReturns(sent, r)
                  ELSE [sent EXCEPT !.snd[r].i = @ + 1, !.snd[r].step = 1]
    /\ UNCHANGED MsOthers

\* ---- receive_map on rank 0, one MPI_Recv per action ----

\* receive_map returned: lines 328-331 go on with the artist map of the
\* same source, then with the next source, then with the reductions.
MsRecvReturns(m) ==
    IF msp.rcv.tag_base = TAG_WORD_COUNT
    THEN [m EXCEPT !.rcv = [MsIdleRecv EXCEPT !.source = msp.rcv.source,
                                              !.tag_base = TAG_ARTIST_COUNT]]
    ELSE [m EXCEPT !.rcv = [MsIdleRecv EXCEPT !.source = msp.rcv.source + 1,
                                              !.tag_base = TAG_WORD_COUNT],
                   !.pc[0] = IF msp.rcv.source + 1 < msp.size THEN "receive_map" ELSE "reduce"]

\* Lines 181-183: the entry count.
MsRecvCount ==
    /\ msp.pc[0] = "receive_map"
    /\ msp.rcv.step = 0
    /\ LET source == msp.rcv.source
           at     == FirstWithTag(msp.up[source], msp.rcv.tag_base, 1)
           taken  == [msp EXCEPT !.up[source] = Without(@, at)]
       IN  /\ at # 0
           /\ msp' = IF msp.up[source][at].data <= 0 THEN MsRecvReturns(taken)
                     ELSE [taken EXCEPT !.rcv.entry_count = msp.up[source][at].data,
                                        !.rcv.i = 0, !.rcv.step = 1]
    /\ UNCHANGED MsOthers

\* Lines 184-185: the key length.
MsRecvKeyLength ==
    /\ msp.pc[0] = "receive_map"
    /\ msp.rcv.step = 1
    /\ LET source == msp.rcv.source
           at     == FirstWithTag(msp.up[source], msp.rcv.tag_base + 1, 1)
       IN  /\ at # 0
           /\ msp' = [msp EXCEPT !.up[source] = Without(@, at),
                                 !.rcv.key_length = msp.up[source][at].data,
                                 !.rcv.step = 2]
    /\ UNCHANGED MsOthers

\* Lines 186-196: the key bytes.
MsRecvKey ==
    /\ msp.pc[0] = "receive_map"
    /\ msp.rcv.step = 2
    /\ LET source == msp.rcv.source
           at     == FirstWithTag(msp.up[source], msp.rcv.tag_base + 2, 1)
       IN  /\ at # 0
           /\ msp' = [msp EXCEPT !.up[source] = Without(@, at),
                                 !.rcv.key = SubSeq(msp.up[source][at].data, 1,
                                                    msp.rcv.key_length),
                                 !.rcv.step = 3]
    /\ UNCHANGED MsOthers

\* Lines 197-200: the value, hashmap_increment, and the loop's next entry.
MsRecvValue ==
    /\ msp.pc[0] = "receive_map"
    /\ msp.rcv.step = 3
    /\ LET source == msp.rcv.source
           at     == FirstWithTag(msp.up[source], msp.rcv.tag_base + 3, 1)
           value  == msp.up[source][at].data
           taken  == IF msp.rcv.tag_base = TAG_WORD_COUNT
                     THEN [msp EXCEPT !.up[source] = Without(@, at),
                                      !.word_map[0] = hashmap_increment(@, msp.rcv.key, value)]
                     ELSE [msp EXCEPT !.up[source] = Without(@, at),
                                      !.artist_map[0] = hashmap_increment(@, msp.rcv.key, value)]
       IN  /\ at # 0
           /\ msp' = IF msp.rcv.i + 1 < msp.rcv.entry_count
                     THEN [taken EXCEPT !.rcv.i = @ + 1, !.rcv.step = 1]
                     ELSE MsRecvReturns(taken)
    /\ UNCHANGED MsOthers

\* Lines 342-351 and 367-371 on a worker: its contributions to the six
\* reductions are handed over (a non-root rank's MPI_Reduce may return
\* before the root takes part), then hashmap_free, MPI_Finalize and
\* return EXIT_SUCCESS.
MsContributeReduce(r) ==
    /\ r # 0
    /\ msp.pc[r] = "reduce"
    /\ msp' = [msp EXCEPT !.reduced = @ \cup {r}, !.pc[r] = "exit_success"]
    /\ UNCHANGED MsOthers

\* Lines 342-371 on rank 0: the reductions complete with every rank's
\* contribution, the results are printed, MPI_Finalize, return EXIT_SUCCESS.
MsReduceRoot ==
    /\ msp.pc[0] = "reduce"
    /\ msp.reduced = MsWorkers
    /\ msp' = [msp EXCEPT !.pc[0] = "exit_success"]
    /\ UNCHANGED MsOthers

MsNext ==
    \/ MsOpen
    \/ MsBroadcastFailure
    \/ MsReadLine
    \/ MsSendLength
    \/ MsSendData
    \/ MsTerminate
    \/ \E r \in MsWorkers : MsRecvLength(r)
    \/ \E r \in MsWorkers : MsRecvData(r)
    \/ \E r \in MsWorkers : MsSendCount(r)
    \/ \E r \in MsWorkers : MsSendKeyLength(r)
    \/ \E r \in MsWorkers : MsSendKey(r)
    \/ \E r \in MsWorkers : MsSendValue(r)
    \/ MsRecvCount
    \/ MsRecvKeyLength
    \/ MsRecvKey
    \/ MsRecvValue
    \/ \E r \in MsWorkers : MsContributeReduce(r)
    \/ MsReduceRoot

InitMs == MsInit /\ PipeIdle /\ PartIdle /\ HtIdle /\ CsvIdle
SpecMs == InitMs /\ [][MsNext]_vars

\* C13: a fatal error is observed by every rank alike.  Once rank 0 has
\* failed to open the input, notified the workers and left with
\* EXIT_FAILURE, no worker is in (or through) the result exchange or the
\* reductions: none is in send_map, none is in or past MPI_Reduce.
FatalErrorStopsEveryRank ==
    msp.pc[0] = "exit_failure" =>
        \A r \in MsWorkers : msp.pc[r] \notin {"send_map", "reduce", "exit_success"}

----------------------------------------------------------------------------
(* Who writes the reports, and when *)

\* Rank 0 has merged both tables of every contributor, nothing is in flight
\* and every contributor is through send_hash_table.
AllPartialsReceived ==
    /\ \A r \in Contributors :
           /\ TimesMerged(r, WORD_TAG_BASE) = 1
           /\ TimesMerged(r, ARTIST_TAG_BASE) = 1
           /\ chan[r] = <<>>
           /\ sender[r] = IdleSender
           /\ pc[r] \in {"barrier2", "in_barrier2", "metrics", "done"}
    /\ TimesMerged(0, WORD_TAG_BASE) = 1
    /\ TimesMerged(0, ARTIST_TAG_BASE) = 1

\* C14: a report file is written by rank 0 only and only after the merge.
\* Every step that changes a report is a step of rank 0 alone (rank 0
\* leaves its export or its metrics position, no other rank moves), it is
\* taken when the tables of all N-1 contributors have been received and
\* merged, and whenever a report exists all of them have been.
ReportsOnlyByCoordinatorAfterMerge ==
    /\ [](reports.words # <<>> \/ reports.artists # <<>> \/ reports.metrics # <<>>
              => AllPartialsReceived)
    /\ [][reports' # reports =>
              /\ pc[0] \in {"export", "metrics"}
              /\ pc'[0] # pc[0]
              /\ \A r \in Contributors : pc'[r] = pc[r]
              /\ AllPartialsReceived]_vars

\* Three ranks, both reports written, and a contributor that had counted
\* words of its own.
ReportsAfterThreeWayMerge ==
    /\ world_size = 3
    /\ ReportsWritten
    /\ \E r \in Contributors : history.partial[r].words # NoMapping

----------------------------------------------------------------------------
(* One counting table under arbitrary ht_put and ht_merge calls *)

PutMaxSeed == 12
PutMaxPuts == 2

\* The initial_capacity arguments of ht_init.
PutCapacities == {0, 1, 8, 9, 16, 17}

\* "a", "A" (the slot of "a" for every capacity), "n", "z".
PutKeys == {<<97>>, <<65>>, <<110>>, <<122>>}
PutDeltas == {0, 1, -1}

\* The table after ht_init(initial_capacity) and ht_put(key, 1) for the
\* first k of the keys "a", "b", "c", ...
PutSeeded(initial_capacity, k) ==
    PutAll(ht_init(initial_capacity), [i \in 1..k |-> [key |-> <<96 + i>>, value |-> 1]])

\* The tables ht_merge takes as src.
PutSources == {PutSeeded(0, 2), PutSeeded(0, 7)}

\* The map a table stands for, kept beside it: a key is in it once a
\* non-zero delta was applied to it, with the sum of the deltas applied.
AbstractPut(map, key, delta) ==
    IF delta = 0 THEN map
    ELSE [k \in DOMAIN map \cup {key} |->
             (IF k \in DOMAIN map THEN map[k] ELSE 0) + (IF k = key THEN delta ELSE 0)]

RECURSIVE AbstractPutAll(_, _)
AbstractPutAll(map, es) ==
    IF es = <<>> THEN map
    ELSE AbstractPutAll(AbstractPut(map, Head(es).key, Head(es).value), Tail(es))

PutInit ==
    \E c \in PutCapacities : \E k \in 0..PutMaxSeed :
        ht = [requested |-> c,
              table |-> PutSeeded(c, k),
              before |-> ht_init(c),
              map |-> [key \in {<<96 + i>> : i \in 1..k} |-> 1],
              last |-> [op |-> "init", key |-> <<>>, delta |-> 0],
              puts |-> 0]

\* ht_put(&table, key, delta)
PutStep(key, delta) ==
    /\ ht.puts < PutMaxPuts
    /\ ht' = [ht EXCEPT !.table = ht_put(@, key, delta),
                        !.before = ht.table,
                        !.map = AbstractPut(@, key, delta),
                        !.last = [op |-> "put", key |-> key, delta |-> delta],
                        !.puts = @ + 1]
    /\ UNCHANGED <<pipeVars, part, csv, msp>>

\* ht_merge(&table, &src)
PutMergeStep(src) ==
    /\ ht.puts < PutMaxPuts
    /\ ht' = [ht EXCEPT !.table = ht_merge(@, src),
                        !.before = ht.table,
                        !.map = AbstractPutAll(@, ht_to_array(src)),
                        !.last = [op |-> "merge", key |-> <<>>, delta |-> 0],
                        !.puts = @ + 1]
    /\ UNCHANGED <<pipeVars, part, csv, msp>>

PutNext ==
    \/ \E key \in PutKeys : \E delta \in PutDeltas : PutStep(key, delta)
    \/ \E src \in PutSources : PutMergeStep(src)

InitPut == PutInit /\ PipeIdle /\ PartIdle /\ CsvIdle /\ MsIdle
SpecPut == InitPut /\ [][PutNext]_vars

\* C15 as stated: after every ht_put that inserts or adds (delta # 0), the
\* load factor size/capacity is at most 0.7.
LoadWithinThresholdAfterPut ==
    [][(ht'.last.op = "put" /\ ht'.last.delta # 0) => ~LoadExceeded(ht'.table)]_vars

\* C15, amended: ht_put tests the load before it inserts, so after every
\* ht_put and ht_merge the table holds at most one entry more than the
\* threshold allows: (size - 1) / capacity <= 0.7.
LoadAtMostOneEntryOver ==
    (ht.table.size - 1) * 10 <= ht.table.capacity * 7

\* An ht_put has just inserted a key and left the load factor above 0.7.
PutLeftLoadAboveThreshold ==
    /\ ht.last.op = "put"
    /\ ht.table.size = ht.before.size + 1
    /\ LoadExceeded(ht.table)

RECURSIVE IsPowerOfTwo(_)
IsPowerOfTwo(n) == n = 1 \/ (n > 1 /\ n % 2 = 0 /\ IsPowerOfTwo(n \div 2))

\* C16: whatever capacity ht_init was asked for and whatever ht_put and
\* ht_merge calls (and the ht_resize calls they make) followed, the
\* table's capacity is a power of two and at least 8.
CapacityPowerOfTwoAtLeast8 ==
    /\ IsPowerOfTwo(ht.table.capacity)
    /\ ht.table.capacity >= 8
    /\ ht.table.capacity >= ht.requested

\* A table asked for with a capacity that is no power of two, grown by an
\* ht_resize in the last call.
ResizedFromOddRequest ==
    /\ ht.requested = 9
    /\ ht.table.capacity = 2 * ht.before.capacity

\* C17: the table refines the map kept beside it.  No key occupies two
\* slots, every occupied slot lies within the capacity, size is the number
\* of occupied slots, the keys stored are exactly those a non-zero delta
\* was applied to, and each stored value is the sum of the deltas applied
\* to its key, whatever collisions and resizes took place.
TableRefinesMap ==
    LET entries == ht.table.entries
    IN  /\ \A i \in DOMAIN entries : \A j \in DOMAIN entries :
               entries[i].key = entries[j].key => i = j
        /\ DOMAIN entries \subseteq 0..(ht.table.capacity - 1)
        /\ ht.table.size = Cardinality(DOMAIN entries)
        /\ {entries[i].key : i \in DOMAIN entries} = DOMAIN ht.map
        /\ \A i \in DOMAIN entries : entries[i].value = ht.map[entries[i].key]

\* A table that was resized, holds the colliding keys "a" and "A", and
\* holds "A" with the deltas 1 and -1 summing to zero.
CollidingKeysAfterResize ==
    /\ ht.table.capacity > next_power_of_two(ht.requested)
    /\ <<97>> \in DOMAIN ht.map
    /\ <<65>> \in DOMAIN ht.map
    /\ ht.map[<<65>>] = 0
    /\ hash_string(<<97>>) % ht.table.capacity = hash_string(<<65>>) % ht.table.capacity

\* C18: ht_put(key, 0) changes nothing: the entries, the size and the
\* capacity after the call are those before it, whether the key is stored
\* or not and whether the load would have called for a resize or not.
PutOfZeroIsNoOp ==
    [][(ht'.last.op = "put" /\ ht'.last.delta = 0) =>
           /\ ht'.table.entries = ht.table.entries
           /\ ht'.table.size = ht.table.size
           /\ ht'.table.capacity = ht.table.capacity]_vars

\* An ht_put(key, 0) of a key the table does not hold, on a table whose
\* load is above the threshold.
PutOfZeroOnLoadedTable ==
    /\ ht.last.op = "put"
    /\ ht.last.delta = 0
    /\ ht.last.key \notin DOMAIN ht.map
    /\ LoadExceeded(ht.table)

----------------------------------------------------------------------------
(* The order of the collection *)

\* The tables in the order lines 1011-1025 merge them: rank 0's own two,
\* then the word table and the artist table of rank 1, of rank 2, ...
CollectionOrder ==
    [i \in 1..(2 * world_size) |->
        <<(i - 1) \div 2, IF i % 2 = 1 THEN WORD_TAG_BASE ELSE ARTIST_TAG_BASE>>]

\* Rank r has one message more (less) in flight after the step.
SendsIn(r) == Len(chan'[r]) = Len(chan[r]) + 1
TakenFrom(r) == Len(chan'[r]) = Len(chan[r]) - 1

\* C19: rank 0 collects in ascending rank order, a contributor sends its
\* word table before its artist table.  The tables are merged in the order
\* own, 1, 2, ..., words before artists; a message is taken from rank r
\* only when both tables of every rank below r are complete, and a message
\* of r's artist table only when r's word table is complete; a contributor
\* that has begun its artist table never sends a word message again, and
\* every message it sends carries a tag of the table it is sending.
CollectsInRankOrder ==
    /\ [](Len(history.merged) <= 2 * world_size
            /\ history.merged = SubSeq(CollectionOrder, 1, Len(history.merged)))
    /\ [][\A r \in Contributors :
            /\ TakenFrom(r) =>
                  /\ r = receiver.source
                  /\ \A q \in 0..(r - 1) : TimesMerged(q, WORD_TAG_BASE) = 1
                                           /\ TimesMerged(q, ARTIST_TAG_BASE) = 1
                  /\ TimesMerged(r, WORD_TAG_BASE) =
                         (IF receiver.tag_base = ARTIST_TAG_BASE THEN 1 ELSE 0)
                  /\ TimesMerged(r, ARTIST_TAG_BASE) = 0
                  /\ \A k \in DOMAIN chan[r] :
                         chan[r][k] \notin {chan'[r][j] : j \in DOMAIN chan'[r]} =>
                             chan[r][k].tag - receiver.tag_base \in 0..3
            /\ SendsIn(r) =>
                  chan'[r][Len(chan'[r])].tag - sender[r].tag_base \in 0..3
            /\ sender[r].tag_base = ARTIST_TAG_BASE =>
                  sender'[r].tag_base \in {ARTIST_TAG_BASE, IdleSender.tag_base}]_vars

\* Three ranks, the collection over, and the last contributor had words to
\* send; its artist table, sent after them, was merged last.
CollectedInOrderFromThree ==
    /\ world_size = 3
    /\ pc[0] = "export"
    /\ Len(history.merged) = 2 * world_size
    /\ history.merged[5] = <<2, WORD_TAG_BASE>>
    /\ history.merged[6] = <<2, ARTIST_TAG_BASE>>
    /\ history.partial[2].words # NoMapping

----------------------------------------------------------------------------
(* Deadlock freedom of the exchange *)

\* Rank 0 is blocked in the MPI_Recv that matches a message of rank r
\* carrying tag.
Posted(r, tag) ==
    /\ pc[0] = "recv"
    /\ receiver.source = r
    /\ receiver.tag_base + receiver.step = tag

\* The steps in which rank r leaves a call that can block: MPI_Bcast, the
\* barrier before the counting, the reductions, the MPI_Send of the table
\* message it is at, the MPI_Recv rank 0 is at, the barrier of line 1067.
BlockingStep(r) ==
    \/ Bcast(r)
    \/ ComputeRanges(r)
    \/ ContributeTotals(r)
    \/ r = 0 /\ ReduceTotals
    \/ /\ pc[r] = "send"
       /\ MpiSend(r, sender[r].tag_base + sender[r].step, 0)
    \/ /\ r = 0 /\ pc[0] = "recv"
       /\ \E m \in {chan[receiver.source][k] : k \in DOMAIN chan[receiver.source]} :
              MpiRecv(receiver.source, receiver.tag_base + receiver.step, m)
    \/ LeaveEndBarrier(r)
    \/ ContributeMetrics(r)
    \/ r = 0 /\ WriteMetrics

BlockingLabels == {"bcast", "in_barrier1", "reduce", "send", "recv", "in_barrier2", "metrics"}

\* Rank r is between two blocking calls: it reads, counts, merges or
\* writes, or enters a barrier.
Computing(r) == pc[r] \notin BlockingLabels \cup {"done"}

\* Rank r is in a blocking call that can return when MPI_Send blocks until
\* the matching receive is posted: a message leaves a contributor only for
\* a posted MPI_Recv (which rank 0 posts after the totals reductions every
\* rank has joined).
CanReturn(r) ==
    /\ pc[r] \in BlockingLabels
    /\ ENABLED (/\ BlockingStep(r)
                /\ SendsIn(r) => Posted(r, chan'[r][Len(chan'[r])].tag))

SomeRankCanProceed ==
    \/ \E r \in Ranks : Computing(r)
    \/ \E r \in Ranks : CanReturn(r)

\* Larger than the steps a rank takes under one label: the bytes of a
\* column file, four messages per table entry.
LabelWeight == 8 * Len(dataset) + 16
TableWeight == 4 * Len(dataset) + 4

\* The steps rank r has left in the loops of its current label.
LoopStepsLeft(r) ==
    CASE pc[r] = "read_text" -> Len(text_file) + 1 - text_range[r].pos
      [] pc[r] = "read_artist" -> Len(artist_file) + 1 - artist_range[r].pos
      [] pc[r] = "send" ->
            (IF sender[r].tag_base = WORD_TAG_BASE
             THEN 4 * Len(ht_to_array(artist_counts[r])) + 6 ELSE 0)
            + 4 * (Len(ht_to_array(SendingTable(r))) - sender[r].i)
            + (4 - sender[r].step) + 1
      [] OTHER -> 0

\* The steps rank 0 has left in its receive loop.
ReceiveStepsLeft ==
    (2 * world_size - Len(history.merged)) * TableWeight
    - (IF receiver.step = 0 THEN 0
       ELSE TableWeight - 4 * (receiver.entry_count - receiver.i) + (receiver.step - 1))

\* A bound on the steps the run can still take.
RunStepsLeft ==
    SumOver([r \in Ranks |->
                LabelWeight * (PcRank("done") - PcRank(pc[r])) + LoopStepsLeft(r)],
            world_size)
    + ReceiveStepsLeft

\* C20: the protocol is deadlock-free for 1..MaxWorkers ranks, also when
\* every MPI_Send blocks until its receive is posted.  As long as a rank
\* has not finalized, some rank can take a step that sends only to a posted
\* receive; every step lowers a non-negative bound on the steps left, so
\* every rank reaches MPI_Finalize; and with every rank finalized every
\* rank has joined the totals reductions, the barrier after the collection
\* and the metrics reductions, rank 0 has merged two tables of every rank
\* and written its reports.
ExchangeDeadlockFree ==
    /\ [](AllDone \/ SomeRankCanProceed)
    /\ [][RunStepsLeft' < RunStepsLeft /\ RunStepsLeft' >= 0]_vars
    /\ [](AllDone => /\ arrived.reduce = Contributors
                     /\ Len(history.merged) = 2 * world_size
                     /\ arrived.barrier2 = Ranks
                     /\ arrived.metrics = Contributors
                     /\ ReportsWritten)

\* Three ranks finalized after an exchange in which both contributors sent
\* word entries.
AllDoneAfterThreeWayExchange ==
    /\ world_size = 3
    /\ AllDone
    /\ history.partial[1].words # NoMapping
    /\ history.partial[2].words # NoMapping

----------------------------------------------------------------------------
(* The two barriers around the measured run *)

\* Rank r has taken start_time (line 851) / total_time (line 1068).
StartTimeTaken(r) == PcRank(pc[r]) > PcRank("in_barrier1")
TotalTimeTaken(r) == PcRank(pc[r]) > PcRank("in_barrier2")

\* C21: two barriers bracket the measured run.  A rank that has taken its
\* start timestamp finds every rank in or past the barrier of line 850; a
\* rank that has taken its total-time sample (or finalized) finds every
\* rank in or past the barrier of line 1067, every contributor done with
\* its two sends, nothing in flight, and rank 0 done with receiving and
\* merging the tables of every rank and with writing the two reports.
BarriersBracketRun ==
    \A r \in Ranks :
        /\ StartTimeTaken(r) =>
              \A q \in Ranks : PcRank(pc[q]) >= PcRank("in_barrier1")
        /\ TotalTimeTaken(r) =>
              /\ \A q \in Ranks : PcRank(pc[q]) >= PcRank("in_barrier2")
              /\ AllPartialsReceived
              /\ receiver.step = 0
              /\ ReportsWritten

\* Three ranks after a collection with word entries from a contributor: the
\* second barrier has released rank 1 while rank 0 and rank 2 are still in
\* it.
ReleasedFromEndBarrier ==
    /\ world_size = 3
    /\ pc[1] = "metrics" /\ pc[0] = "in_barrier2" /\ pc[2] = "in_barrier2"
    /\ history.partial[2].words # NoMapping

----------------------------------------------------------------------------
(* read_csv_record on arbitrary streams *)

RdMaxLen == 5

\* A letter, the quote and the two line-break bytes.
RdAlphabet == {97, QUOTE, LF, CR}

\* A stream of up to RdMaxLen bytes, at offset 0, nothing read yet.
RdInit ==
    csv \in [file : SeqsUpTo(RdAlphabet, RdMaxLen), pos : {0}, start : {0},
             rec : {[len |-> 0, buf |-> <<>>, pos |-> 0]}, calls : {0}]

\* One call of read_csv_record at the stream's offset.
RdRead ==
    /\ csv.calls < RdMaxLen + 1
    /\ LET rec == read_csv_record(csv.file, csv.pos)
       IN  csv' = [csv EXCEPT !.start = csv.pos, !.rec = rec, !.pos = rec.pos,
                              !.calls = @ + 1]
    /\ UNCHANGED <<pipeVars, part, ht, msp>>

\* fseek to an offset inside the file, as lines 901 and 954 do, before
\* the first call.
RdSeek(offset) ==
    /\ csv.calls = 0
    /\ csv.pos = 0
    /\ offset # 0
    /\ csv' = [csv EXCEPT !.pos = offset]
    /\ UNCHANGED <<pipeVars, part, ht, msp>>

RdNext ==
    \/ RdRead
    \/ \E offset \in 1..RdMaxLen : offset <= Len(csv.file) /\ RdSeek(offset)

InitRd == RdInit /\ PipeIdle /\ PartIdle /\ HtIdle /\ MsIdle
SpecRd == InitRd /\ [][RdNext]_vars

\* The number of quote bytes among the bytes at offsets a .. b-1 of f.
QuotesIn(f, a, b) == Cardinality({i \in (a + 1)..b : f[i] = QUOTE})

\* The byte at offset i of f is a line break outside an open quote of the
\* record that starts at offset s: an even number of quotes precedes it (a
\* doubled quote inside a quoted field counts twice).
BreakOutsideQuotes(f, s, i) ==
    /\ f[i + 1] \in {LF, CR}
    /\ QuotesIn(f, s, i) % 2 = 0

\* The offset after the terminator at offset i: CR LF is one terminator.
AfterTerminator(f, i) ==
    IF f[i + 1] = CR /\ i + 1 < Len(f) /\ f[i + 2] = LF THEN i + 2 ELSE i + 1

\* C22: read_csv_record called at offset s returns -1 exactly when no byte
\* is left; otherwise it returns the bytes from s up to and including the
\* first line break outside an open quote (LF, CR, or CR LF as one
\* terminator), or up to the end of the stream when there is none.  Line
\* breaks inside a quoted field and doubled quotes do not end the record.
RecordEndsAtBreakOutsideQuotes ==
    csv.calls > 0 =>
        LET f == csv.file
            s == csv.start
            rec == csv.rec
            breaks == {i \in s..(Len(f) - 1) : BreakOutsideQuotes(f, s, i)}
        IN  IF s >= Len(f)
            THEN rec.len = -1
            ELSE /\ rec.len = Len(rec.buf) /\ rec.len > 0
                 /\ rec.buf = SubSeq(f, s + 1, rec.pos)
                 /\ IF breaks = {}
                    THEN rec.pos = Len(f)
                    ELSE \E i \in breaks :
                            /\ \A j \in breaks : i <= j
                            /\ rec.pos = AfterTerminator(f, i)

\* The record "<LF>" CR LF read whole: the quoted line break did not end
\* it and the CR LF pair was consumed as one terminator.
QuotedBreakReadThrough ==
    /\ csv.calls = 1
    /\ csv.file = <<QUOTE, LF, QUOTE, CR, LF>>
    /\ csv.rec.len = 5

----------------------------------------------------------------------------
(* The round-robin variant the README documents (mpi_spotify --input ...
   --max-records n): its main program is not among the sources; what
   follows is modelled from the README and the contract stated for it *)

RrMaxWorkers == 4
RrMaxRows == 4

\* A data row is known by its number of fields: 4 for a valid record, fewer
\* for one that is skipped.
RrRowKinds == {2, 4}

\* --max-records absent.
RrNoLimit == -1

\* The run before rank 0 reads the first row: `size` processes, the rows of
\* the file, the --max-records option, no record assigned yet.
RrInit ==
    part \in [size : 1..RrMaxWorkers,
              rows : SeqsUpTo(RrRowKinds, RrMaxRows),
              max_records : {RrNoLimit} \cup 0..RrMaxRows,
              next : {1}, sent : {0}, reading : {TRUE},
              assigned : {[r \in 0..(RrMaxWorkers - 1) |-> <<>>]}]

\* The rank that processes the k-th valid record (k from 0) with rank 0
\* reading and the other ranks processing, where rank 0 is counted in.
RrDestAllRanks(k, size) == k % size

\* The rank that processes the k-th valid record (k from 0): rank 0 alone
\* processes everything; otherwise the ranks 1 .. size-1 take turns.
RrDest(k, size) == IF size = 1 THEN 0 ELSE 1 + (k % (size - 1))

\* The limit test that lets one record too many through.
RrLimitReachedLate(sent, max_records) == max_records # RrNoLimit /\ sent > max_records

\* --max-records n given and n records already handed out.
RrLimitReached(sent, max_records) == max_records # RrNoLimit /\ sent >= max_records

RrOthers == <<pipeVars, ht, csv, msp>>

\* Rank 0 reads the next row and hands a valid record to its rank.
RrDispatch ==
    /\ part.reading
    /\ part.next <= Len(part.rows)
    /\ ~RrLimitReached(part.sent, part.max_records)
    /\ part.rows[part.next] >= 4
    /\ LET dest == RrDest(part.sent, part.size)
       IN  part' = [part EXCEPT !.assigned[dest] = Append(@, part.next),
                                !.sent = @ + 1,
                                !.next = @ + 1]
    /\ UNCHANGED RrOthers

\* Rank 0 reads a row with fewer than 4 fields and skips it.
RrSkip ==
    /\ part.reading
    /\ part.next <= Len(part.rows)
    /\ ~RrLimitReached(part.sent, part.max_records)
    /\ part.rows[part.next] < 4
    /\ part' = [part EXCEPT !.next = @ + 1]
    /\ UNCHANGED RrOthers

\* Rank 0 stops reading: end of file, or the limit is reached.
RrStop ==
    /\ part.reading
    /\ part.next > Len(part.rows) \/ RrLimitReached(part.sent, part.max_records)
    /\ part' = [part EXCEPT !.reading = FALSE]
    /\ UNCHANGED RrOthers

RrNext == RrDispatch \/ RrSkip \/ RrStop

InitRr == RrInit /\ PipeIdle /\ HtIdle /\ CsvIdle /\ MsIdle
SpecRr == InitRr /\ [][RrNext]_vars

\* The rows rank 0 has read, the valid ones among them, and the number of
\* valid rows before row i.
RrRead == 1..(part.next - 1)
RrValid(S) == {i \in S : part.rows[i] >= 4}
RrOrdinal(i) == Cardinality(RrValid(1..(i - 1)))
RrCount(r) == Len(part.assigned[r])
RrWorkers == 1..(part.size - 1)

----------------------------------------------------------------------------
(* src/src/spotify_mpi.c: rank 0 reads the records and deals them out; every
   rank counts, classifies its lyrics with the external script, and sends
   its maps to rank 0 *)

TAG_LYRIC == 100
TAG_WORD == 200
TAG_ARTIST == 300

\* A uthash map is the list of its entries in insertion order (the order
\* HASH_ITER visits them).
NoEntriesYet == <<>>

\* add_word / add_artist: the entry of the key gets value added, a new key
\* is appended; the empty key is ignored.
add_word(map, word, value) ==
    IF word = <<>> THEN map
    ELSE IF \E i \in DOMAIN map : map[i].key = word
         THEN [i \in DOMAIN map |->
                  IF map[i].key = word THEN [map[i] EXCEPT !.count = @ + value] ELSE map[i]]
         ELSE Append(map, [key |-> word, count |-> value])

add_artist(map, artist, value) == add_word(map, artist, value)

\* update_word_counts: the loop over i = 0 .. text_len, the byte after the
\* text read as a blank (texts here are far shorter than the 4096-byte
\* token buffer).
RECURSIVE UpdateWordLoop(_, _, _, _)
UpdateWordLoop(map, text, i, buffer) ==
    IF i > Len(text) + 1 THEN map
    ELSE LET c == IF i <= Len(text) THEN text[i] ELSE 32
         IN  IF IsAlnum(c)
             THEN UpdateWordLoop(map, text, i + 1, Append(buffer, ToLower(c)))
             ELSE IF buffer # <<>>
                  THEN UpdateWordLoop(add_word(map, buffer, 1), text, i + 1, <<>>)
                  ELSE UpdateWordLoop(map, text, i + 1, buffer)

update_word_counts(map, text) == UpdateWordLoop(map, text, 1, <<>>)

\* The for loop of parse_csv_record from byte i on: the fields closed so
\* far and the bytes of the open one.
RECURSIVE ParseRecordLoop(_, _, _, _, _)
ParseRecordLoop(record, i, fields, buf, in_quotes) ==
    IF i > Len(record) THEN [fields |-> fields, buf |-> buf]
    ELSE LET c == record[i]
         IN  IF c = CR THEN ParseRecordLoop(record, i + 1, fields, buf, in_quotes)
             ELSE IF c = QUOTE
             THEN IF in_quotes /\ i + 1 <= Len(record) /\ record[i + 1] = QUOTE
                  THEN ParseRecordLoop(record, i + 2, fields, Append(buf, QUOTE), in_quotes)
                  ELSE ParseRecordLoop(record, i + 1, fields, buf, ~in_quotes)
             ELSE IF c = COMMA /\ ~in_quotes
             THEN IF Len(fields) + 1 >= 4
                  THEN [fields |-> Append(fields, buf), buf |-> <<>>]
                  ELSE ParseRecordLoop(record, i + 1, Append(fields, buf), <<>>, in_quotes)
             ELSE ParseRecordLoop(record, i + 1, fields, Append(buf, c), in_quotes)

\* parse_csv_record: 0 and the artist and lyrics fields when the record has
\* exactly 4 fields, -1 otherwise.
parse_csv_record(record) ==
    LET scanned == ParseRecordLoop(record, 1, <<>>, <<>>, FALSE)
        fields == IF Len(scanned.fields) < 4 /\ scanned.buf # <<>>
                  THEN Append(scanned.fields, scanned.buf)
                  ELSE scanned.fields
    IN  IF Len(fields) # 4
        THEN [result |-> -1, artist |-> <<>>, lyrics |-> <<>>]
        ELSE [result |-> 0, artist |-> fields[1], lyrics |-> fields[4]]

\* getline at offset pos of f: the offset after the line (through its LF,
\* or the end of the file), pos itself at end of file.
RECURSIVE GetlineEnd(_, _)
GetlineEnd(f, pos) ==
    IF pos >= Len(f) THEN Len(f)
    ELSE IF f[pos + 1] = LF THEN pos + 1 ELSE GetlineEnd(f, pos + 1)

\* The while loop of the record reader of spotify_mpi.c: lines are
\* appended until the quotes seen are even in number or getline fails.
RECURSIVE ReadLinesLoop(_, _, _)
ReadLinesLoop(f, pos, quote_count) ==
    IF pos >= Len(f) THEN pos
    ELSE LET end == GetlineEnd(f, pos)
             quotes == quote_count + QuotesIn(f, pos, end)
         IN  IF quotes % 2 = 0 THEN end ELSE ReadLinesLoop(f, end, quotes)

\* read_csv_record of spotify_mpi.c with the stream at offset pos: -1 at end
\* of file, otherwise what parse_csv_record makes of the lines read.
sm_read_csv_record(f, pos) ==
    LET end == ReadLinesLoop(f, pos, 0)
    IN  IF end = pos
        THEN [result |-> -1, artist |-> <<>>, lyrics |-> <<>>, pos |-> pos]
        ELSE [r \in {"result", "artist", "lyrics", "pos"} |->
                 IF r = "pos" THEN end ELSE parse_csv_record(Slice(f, pos, end))[r]]


\* The data rows of the model, after the header line fgets has read.
\* 'A,s,x,hi yo<LF>'
SmRowGood == <<65, 44, 115, 44, 120, 44, 104, 105, 32, 121, 111, 10>>

\* 'B,t,y,"yo<LF>hi"<LF>'
SmRowQuoted == <<66, 44, 116, 44, 121, 44, 34, 121, 111, 10, 104, 105, 34, 10>>

\* 'C,u,zz<LF>'
SmRowShort == <<67, 44, 117, 44, 122, 122, 10>>

SmMaxWorkers == 3
SmMaxRows == 3

SmRows == {SmRowGood, SmRowQuoted, SmRowShort}
SmFiles == {Flatten(rows) : rows \in SeqsUpTo(SmRows, SmMaxRows)}

SmRanks == 0..(msp.size - 1)
SmWorkers == 1..(msp.size - 1)
NoSentiment == [positive |-> 0, neutral |-> 0, negative |-> 0]
SmIdleRecv == [source |-> 0, tag |-> 0, step |-> "len", len |-> 0, key |-> <<>>]
SmIdleInbox == [step |-> "lyric_len", lyric_len |-> 0, artist_len |-> 0, lyrics |-> <<>>]

\* After MPI_Init, the fopen of the rank's classification file, the fopen
\* of the CSV on rank 0 and the fgets of its header line.
SmInit ==
    \E n \in 1..SmMaxWorkers : \E f \in SmFiles :
        msp = [size |-> n, file |-> f, pos |-> 0, record_index |-> 0, dest |-> 0,
               outbox |-> <<>>,
               pc |-> [r \in 0..(n - 1) |-> IF r = 0 THEN "read" ELSE "recv"],
               down |-> [r \in 1..(n - 1) |-> <<>>],
               up |-> [r \in 1..(n - 1) |-> <<>>],
               inbox |-> [r \in 1..(n - 1) |-> SmIdleInbox],
               word_map |-> [r \in 0..(n - 1) |-> NoEntriesYet],
               artist_map |-> [r \in 0..(n - 1) |-> NoEntriesYet],
               tmp_lines |-> [r \in 0..(n - 1) |-> 0],
               classified |-> [r \in 0..(n - 1) |-> "pending"],
               local |-> [r \in 0..(n - 1) |-> NoSentiment],
               reduced |-> {},
               global |-> NoSentiment,
               upbox |-> [r \in 1..(n - 1) |-> <<>>],
               rcv |-> SmIdleRecv,
               merged |-> <<>>,
               printed |-> <<>>]

\* process_record on rank r: the artist is counted, the lyrics are
\* tokenized and written as one line of the classification file.
process_record(m, r, artist, lyrics) ==
    [m EXCEPT !.artist_map[r] = IF artist # <<>> THEN add_artist(@, artist, 1) ELSE @,
              !.word_map[r] = IF lyrics # <<>> THEN update_word_counts(@, lyrics) ELSE @,
              !.tmp_lines[r] = IF lyrics # <<>> THEN @ + 1 ELSE @]

SmMessage(tag, data) == [tag |-> tag, data |-> data]

\* The MPI_Send calls of lines 421-430 for one record, in order.
LyricMessages(artist, lyrics) ==
    <<SmMessage(TAG_LYRIC, Len(lyrics)), SmMessage(TAG_LYRIC, Len(artist))>>
    \o (IF Len(lyrics) > 0 THEN <<SmMessage(TAG_LYRIC, lyrics)>> ELSE <<>>)
    \o (IF Len(artist) > 0 THEN <<SmMessage(TAG_LYRIC, artist)>> ELSE <<>>)

\* The MPI_Send calls of send_word_map_to_root / send_artist_map_to_root:
\* length, key and count of every entry, then the -1 sentinel.
RECURSIVE MapMessages(_, _)
MapMessages(map, tag) ==
    IF map = <<>> THEN <<SmMessage(tag, -1)>>
    ELSE <<SmMessage(tag, Len(map[1].key)), SmMessage(tag, map[1].key),
           SmMessage(tag, map[1].count)>> \o MapMessages(Tail(map), tag)

\* Lines 416-438: one test of the while condition on rank 0.  A record is
\* processed locally or its sends are queued; when read_csv_record does
\* not return 0 the loop is left and the file closed.
SmReadRecord ==
    /\ msp.pc[0] = "read"
    /\ LET rec == sm_read_csv_record(msp.file, msp.pos)
           dest == msp.record_index % msp.size
       IN  msp' =
             IF rec.result # 0
             THEN [msp EXCEPT !.pc[0] = IF msp.size = 1 THEN "classify" ELSE "terminate",
                              !.dest = 1]
             ELSE IF dest = 0
             THEN [process_record(msp, 0, rec.artist, rec.lyrics)
                      EXCEPT !.pos = rec.pos, !.record_index = @ + 1]
             ELSE [msp EXCEPT !.pos = rec.pos, !.dest = dest, !.pc[0] = "send",
                              !.outbox = LyricMessages(rec.artist, rec.lyrics)]
    /\ UNCHANGED MsOthers

\* One MPI_Send of lines 423-429; after the last one, ++record_index.
SmSendLyric ==
    /\ msp.pc[0] = "send"
    /\ Len(msp.down[msp.dest]) < ChanCap
    /\ msp' = [msp EXCEPT !.down[msp.dest] = Append(@, Head(msp.outbox)),
                          !.outbox = Tail(@),
                          !.record_index = IF Len(msp.outbox) = 1 THEN @ + 1 ELSE @,
                          !.pc[0] = IF Len(msp.outbox) = 1 THEN "read" ELSE "send"]
    /\ UNCHANGED MsOthers

\* Lines 440-442: send_termination_signal to the next rank.
SmTerminate ==
    /\ msp.pc[0] = "terminate"
    /\ Len(msp.down[msp.dest]) < ChanCap
    /\ msp' = [msp EXCEPT !.down[msp.dest] = Append(@, SmMessage(TAG_LYRIC, -1)),
                          !.dest = @ + 1,
                          !.pc[0] = IF msp.dest + 1 < msp.size THEN "terminate" ELSE "classify"]
    /\ UNCHANGED MsOthers

\* Lines 444-475: one MPI_Recv of the receive loop on rank r, and after the
\* last one of a record process_record.
SmWorkerRecv(r) ==
    /\ msp.pc[r] = "recv"
    /\ msp.down[r] # <<>>
    /\ LET data == Head(msp.down[r]).data
           box == msp.inbox[r]
           taken == [msp EXCEPT !.down[r] = Tail(@)]
           idle == [taken EXCEPT !.inbox[r] = SmIdleInbox]
       IN  msp' =
             CASE box.step = "lyric_len" ->
                    IF data = -1 THEN [taken EXCEPT !.pc[r] = "classify"]
                    ELSE [taken EXCEPT !.inbox[r].lyric_len = data,
                                       !.inbox[r].step = "artist_len"]
               [] box.step = "artist_len" ->
                    IF box.lyric_len > 0
                    THEN [taken EXCEPT !.inbox[r].artist_len = data, !.inbox[r].step = "lyrics"]
                    ELSE IF data > 0
                    THEN [taken EXCEPT !.inbox[r].artist_len = data, !.inbox[r].step = "artist"]
                    ELSE process_record(idle, r, <<>>, <<>>)
               [] box.step = "lyrics" ->
                    IF box.artist_len > 0
                    THEN [taken EXCEPT !.inbox[r].lyrics = data, !.inbox[r].step = "artist"]
                    ELSE process_record(idle, r, <<>>, data)
               [] box.step = "artist" -> process_record(idle, r, data, box.lyrics)
    /\ UNCHANGED MsOthers

\* A main that returns when classify_chunk fails.
SmClassifyAborts(r) ==
    /\ msp.pc[r] = "classify"
    /\ \E ok \in BOOLEAN : \E positive \in {0, msp.tmp_lines[r]} :
          msp' = [msp EXCEPT
                     !.classified[r] = IF ok THEN "ok" ELSE "failed",
                     !.local[r] = IF ok
                                  THEN [positive |-> positive,
                                        neutral |-> msp.tmp_lines[r] - positive,
                                        negative |-> 0]
                                  ELSE @,
                     !.pc[r] = IF ok THEN "reduce" ELSE "done"]
    /\ UNCHANGED MsOthers

\* Lines 478-493: the classification file is closed and classify_chunk
\* run on it.  The script is outside the program: it fails (classify_chunk
\* returns -1 and the three counts keep their 0), or it labels every lyric
\* of the file.
SmClassify(r) ==
    /\ msp.pc[r] = "classify"
    /\ \E ok \in BOOLEAN : \E positive \in {0, msp.tmp_lines[r]} :
          msp' = [msp EXCEPT
                     !.classified[r] = IF ok THEN "ok" ELSE "failed",
                     !.local[r] = IF ok
                                  THEN [positive |-> positive,
                                        neutral |-> msp.tmp_lines[r] - positive,
                                        negative |-> 0]
                                  ELSE @,
                     !.pc[r] = "reduce"]
    /\ UNCHANGED MsOthers

\* Lines 499-514 on a rank other than 0: its contribution to the seven
\* reductions; it goes on to send its word map.
SmContributeReduce(r) ==
    /\ r # 0
    /\ msp.pc[r] = "reduce"
    /\ msp' = [msp EXCEPT !.reduced = @ \cup {r},
                          !.pc[r] = "send_words",
                          !.upbox[r] = MapMessages(msp.word_map[r], TAG_WORD)]
    /\ UNCHANGED MsOthers

\* SmReduceRoot going on to a receive loop that takes the artist maps
\* first.
SmReduceRootArtistsFirst ==
    /\ msp.pc[0] = "reduce"
    /\ msp.reduced = SmWorkers
    /\ msp' = [msp EXCEPT
                  !.global = [s \in {"positive", "neutral", "negative"} |->
                                 SumOver([r \in SmRanks |-> msp.local[r][s]], msp.size)],
                  !.pc[0] = IF msp.size = 1 THEN "print" ELSE "recv",
                  !.rcv = [SmIdleRecv EXCEPT !.source = 1, !.tag = TAG_ARTIST]]
    /\ UNCHANGED MsOthers

\* Lines 499-518 on rank 0: the reductions complete with every rank's
\* contribution; rank 0 goes on to the receive loops.
SmReduceRoot ==
    /\ msp.pc[0] = "reduce"
    /\ msp.reduced = SmWorkers
    /\ msp' = [msp EXCEPT
                  !.global = [s \in {"positive", "neutral", "negative"} |->
                                 SumOver([r \in SmRanks |-> msp.local[r][s]], msp.size)],
                  !.pc[0] = IF msp.size = 1 THEN "print" ELSE "recv",
                  !.rcv = [SmIdleRecv EXCEPT !.source = 1, !.tag = TAG_WORD]]
    /\ UNCHANGED MsOthers

\* One MPI_Send of send_word_map_to_root / send_artist_map_to_root on rank
\* r; lines 570-577 after the last one.
SmSendUp(r) ==
    /\ msp.pc[r] \in {"send_words", "send_artists"}
    /\ Len(msp.up[r]) < ChanCap
    /\ LET sent == [msp EXCEPT !.up[r] = Append(@, Head(msp.upbox[r])),
                               !.upbox[r] = Tail(@)]
       IN  msp' =
             IF Len(msp.upbox[r]) > 1 THEN sent
             ELSE IF msp.pc[r] = "send_words"
             THEN [sent EXCEPT !.pc[r] = "send_artists",
                               !.upbox[r] = MapMessages(msp.artist_map[r], TAG_ARTIST)]
             ELSE [sent EXCEPT !.pc[r] = "done",
                               !.word_map[r] = NoEntriesYet,
                               !.artist_map[r] = NoEntriesYet]
    /\ UNCHANGED MsOthers

\* Lines 520-554: one MPI_Recv of rank 0's two receive loops (all word
\* maps, then all artist maps); after the count, the merge.
SmRecvUp ==
    /\ msp.pc[0] = "recv"
    /\ LET q == msp.up[msp.rcv.source]
           at == FirstWithTag(q, msp.rcv.tag, 1)
       IN  /\ at # 0
           /\ LET data == q[at].data
                  taken == [msp EXCEPT !.up[msp.rcv.source] = Without(@, at)]
              IN  msp' =
                    CASE msp.rcv.step = "len" ->
                           IF data # -1
                           THEN [taken EXCEPT !.rcv.len = data, !.rcv.step = "key"]
                           ELSE IF msp.rcv.source + 1 < msp.size
                           THEN [taken EXCEPT !.rcv.source = @ + 1]
                           ELSE IF msp.rcv.tag = TAG_WORD
                           THEN [taken EXCEPT !.rcv.source = 1, !.rcv.tag = TAG_ARTIST]
                           ELSE [taken EXCEPT !.rcv = SmIdleRecv, !.pc[0] = "print"]
                      [] msp.rcv.step = "key" ->
                           [taken EXCEPT !.rcv.key = data, !.rcv.step = "count"]
                      [] msp.rcv.step = "count" ->
                           [taken EXCEPT
                               !.word_map[0] = IF msp.rcv.tag = TAG_WORD
                                               THEN add_word(@, msp.rcv.key, data) ELSE @,
                               !.artist_map[0] = IF msp.rcv.tag = TAG_ARTIST
                                                 THEN add_artist(@, msp.rcv.key, data) ELSE @,
                               !.merged = Append(@, <<msp.rcv.source, msp.rcv.tag,
                                                      msp.rcv.key, data>>),
                               !.rcv.step = "len"]
    /\ UNCHANGED MsOthers

\* Lines 556-577 on rank 0: the two rankings and the sentiment totals are
\* printed (the counts are kept, not the order of the lines), the maps
\* freed.
SmPrint ==
    /\ msp.pc[0] = "print"
    /\ msp' = [msp EXCEPT !.printed = <<[words |-> msp.word_map[0],
                                         artists |-> msp.artist_map[0],
                                         sentiment |-> msp.global]>>,
                          !.word_map[0] = NoEntriesYet,
                          !.artist_map[0] = NoEntriesYet,
                          !.pc[0] = "done"]
    /\ UNCHANGED MsOthers

SmNext ==
    \/ SmReadRecord
    \/ SmSendLyric
    \/ SmTerminate
    \/ \E r \in SmWorkers : SmWorkerRecv(r)
    \/ \E r \in SmRanks : SmClassify(r)
    \/ \E r \in SmWorkers : SmContributeReduce(r)
    \/ SmReduceRoot
    \/ \E r \in SmWorkers : SmSendUp(r)
    \/ SmRecvUp
    \/ SmPrint

InitSm == SmInit /\ PipeIdle /\ PartIdle /\ HtIdle /\ CsvIdle
SpecSm == InitSm /\ [][SmNext]_vars


\* ---------------------------------------------------------------------
\* spotify_mpi.c: what one process reading the whole file would count.

\* The records the distribution loop of lines 416-438 takes from offset
\* pos on, in order: the loop runs while read_csv_record returns 0.
RECURSIVE SmDealt(_, _)
SmDealt(f, pos) ==
    LET rec == sm_read_csv_record(f, pos)
    IN  IF rec.result # 0 THEN <<>>
        ELSE <<[artist |-> rec.artist, lyrics |-> rec.lyrics]>> \o SmDealt(f, rec.pos)

\* The number of records from offset pos on that parse to four fields.
RECURSIVE SmWellFormed(_, _)
SmWellFormed(f, pos) ==
    LET rec == sm_read_csv_record(f, pos)
    IN  IF rec.pos = pos THEN 0
        ELSE (IF rec.result = 0 THEN 1 ELSE 0) + SmWellFormed(f, rec.pos)

RECURSIVE SmWordsOf(_)
SmWordsOf(records) ==
    IF records = <<>> THEN NoEntriesYet
    ELSE LET before == SmWordsOf(SubSeq(records, 1, Len(records) - 1))
             last == records[Len(records)]
         IN  IF last.lyrics # <<>> THEN update_word_counts(before, last.lyrics) ELSE before

RECURSIVE SmArtistsOf(_)
SmArtistsOf(records) ==
    IF records = <<>> THEN NoEntriesYet
    ELSE LET before == SmArtistsOf(SubSeq(records, 1, Len(records) - 1))
             last == records[Len(records)]
         IN  IF last.artist # <<>> THEN add_artist(before, last.artist, 1) ELSE before

\* A map as the function from its keys to their counts.
AsCounts(map) ==
    [k \in {map[i].key : i \in 1..Len(map)} |->
        map[CHOOSE i \in 1..Len(map) : map[i].key = k].count]

SmAllDone == \A r \in SmRanks : msp.pc[r] = "done"

\* C26 (as claimed): a record that does not parse to four fields is
\* dropped and counting continues: when rank 0 has left the distribution
\* loop, every well-formed record of the file has been dispatched.
MalformedRecordOnlyDropped ==
    msp.pc[0] \notin {"read", "send"}
        => msp.record_index = SmWellFormed(msp.file, 0)


\* ---------------------------------------------------------------------
\* spotify_mpi.c: the classifier is outside the program.

SmClassifierFailed == \E r \in SmRanks : msp.classified[r] = "failed"

\* The sentiment counts of the ranks whose classifier ran.
SmLabelled(s) ==
    SumOver([r \in SmRanks |-> IF msp.classified[r] = "ok" THEN msp.local[r][s] ELSE 0],
            msp.size)

\* Some rank is not blocked: rank 0 is at the test of its reading loop
\* (read_csv_record waits for nothing), or another step can be taken.
SmSomeRankCanStep ==
    \/ msp.pc[0] = "read"
    \/ ENABLED (\/ SmSendLyric \/ SmTerminate \/ SmReduceRoot \/ SmRecvUp \/ SmPrint
                \/ \E r \in SmRanks : SmClassify(r)
                \/ \E r \in SmWorkers :
                      SmWorkerRecv(r) \/ SmContributeReduce(r) \/ SmSendUp(r))

\* A bound on the steps a run still takes.  A map has no more entries
\* than the file has bytes, so SmMapWeight is more than twice the
\* messages of one map; a message still to be sent weighs 2 (3 on rank
\* 0, whose last send of a record returns to the reading loop), one in
\* flight 1.
SmMapWeight == 2 * (3 * Len(msp.file) + 1) + 1

SmRootStepsLeft ==
    CASE msp.pc[0] \in {"read", "send"} ->
           2 * msp.size + 5 + 10 * (Len(msp.file) - msp.pos) + 3 * Len(msp.outbox)
           + (IF msp.pc[0] = "read" THEN 1 ELSE 0)
      [] msp.pc[0] = "terminate" -> 5 + 2 * (msp.size - msp.dest)
      [] msp.pc[0] = "classify" -> 4
      [] msp.pc[0] = "reduce" -> 3
      [] msp.pc[0] = "recv" -> 2
      [] msp.pc[0] = "print" -> 1
      [] OTHER -> 0

SmWorkerStepsLeft(r) ==
    Len(msp.down[r]) + Len(msp.up[r])
    + CASE msp.pc[r] = "recv" -> 2 * SmMapWeight + 2
        [] msp.pc[r] = "classify" -> 2 * SmMapWeight + 1
        [] msp.pc[r] = "reduce" -> 2 * SmMapWeight
        [] msp.pc[r] = "send_words" -> SmMapWeight + 2 * Len(msp.upbox[r])
        [] msp.pc[r] = "send_artists" -> 2 * Len(msp.upbox[r])
        [] OTHER -> 0

SmStepsLeft ==
    SmRootStepsLeft
    + SumOver([r \in SmRanks |-> IF r = 0 THEN 0 ELSE SmWorkerStepsLeft(r)], msp.size)

\* C25: a classifier that fails on a rank neither aborts nor blocks the
\* run: the rank's three sentiment counts stay 0, every rank goes through
\* the reductions and the exchange of the maps to its end, and rank 0
\* prints the word and artist counts of the records dealt out, whatever
\* the classifiers did, with the sentiment totals of the ranks whose
\* classifier ran.
ClassifierFailureDoesNotStopCounting ==
    /\ [](\A r \in SmRanks : msp.classified[r] = "failed" => msp.local[r] = NoSentiment)
    /\ [](\A r \in SmWorkers : msp.pc[r] \in {"send_words", "send_artists", "done"}
                                  => r \in msp.reduced)
    /\ [](SmAllDone \/ SmSomeRankCanStep)
    /\ [][SmStepsLeft' < SmStepsLeft /\ SmStepsLeft' >= 0]_vars
    /\ [](SmAllDone =>
            /\ Len(msp.printed) = 1
            /\ AsCounts(msp.printed[1].words) = AsCounts(SmWordsOf(SmDealt(msp.file, 0)))
            /\ AsCounts(msp.printed[1].artists) = AsCounts(SmArtistsOf(SmDealt(msp.file, 0)))
            /\ \A s \in {"positive", "neutral", "negative"} :
                  msp.printed[1].sentiment[s] = SmLabelled(s)
            /\ \A r \in SmWorkers : msp.up[r] = <<>> /\ msp.down[r] = <<>>)

\* Witness of C25: a run of three ranks has ended with the classifier of
\* a worker failed and another's run, and rank 0 printed words and
\* artists counted by workers.
PrintedDespiteFailedClassifier ==
    /\ SmAllDone
    /\ msp.size = 3
    /\ msp.classified[1] = "failed"
    /\ msp.classified[2] = "ok"
    /\ msp.tmp_lines[1] > 0
    /\ msp.printed[1].words # <<>>
    /\ msp.printed[1].artists # <<>>
    /\ msp.printed[1].sentiment.positive > 0


\* ---------------------------------------------------------------------
\* The discard at the start of a rank's byte range

\* The offsets at which the records of a column file begin, read from the
\* end of its header line on, and the end of the file.
RECURSIVE RecordStartsFrom(_, _)
RecordStartsFrom(f, pos) ==
    LET rec == read_csv_record(f, pos)
    IN  IF rec.len < 0 THEN {pos, Len(f)} ELSE {pos} \cup RecordStartsFrom(f, rec.pos)

TrueRecordStarts(f) == RecordStartsFrom(f, compute_header_length(f))

Positioned(r, file, local_start) ==
    LET header_len == compute_header_length(file)
        position == SeekStart(file, local_start, header_len)
    IN  /\ position \in TrueRecordStarts(file)
        /\ local_start = header_len => position = header_len
        /\ local_start > header_len => position > local_start

\* C27 (as claimed): once a rank has positioned a column file, its read
\* position is the first byte of a record of the file or the end of file,
\* and the header end itself when its range starts there.
DiscardLandsOnRecordStart ==
    \A r \in Ranks :
        /\ PcRank(pc[r]) > PcRank("in_barrier1")
              => Positioned(r, text_file, text_range[r].start)
        /\ PcRank(pc[r]) > PcRank("read_text")
              => Positioned(r, artist_file, artist_range[r].start)


\* ---------------------------------------------------------------------
\* The load test of ht_put

\* The table the probe of the last ht_put ran on: the table before the
\* call, resized if its load was above the threshold.
ProbedTable ==
    IF LoadExceeded(ht.before) THEN ht_resize(ht.before, ht.before.capacity * 2)
    ELSE ht.before

\* Every key of t is found by the probe from its home slot.
AllKeysFound(t) ==
    \A i \in DOMAIN t.entries :
        ProbeKey(t.entries, t.entries[i].key,
                 hash_string(t.entries[i].key) % t.capacity, t.capacity - 1)
            \in DOMAIN t.entries

\* C28: an ht_put with a non-zero delta tests the load before it probes.
\* With size/capacity > 0.7 on entry the table has exactly twice the
\* capacity afterwards, the resize by itself keeps the size and the
\* counts of all keys and leaves every key where the probe finds it, and
\* the key is inserted or added to in the resized table; with
\* size/capacity <= 0.7 on entry the capacity is the same afterwards.
PutTestsLoadBeforeProbing ==
    (ht.last.op = "put" /\ ht.last.delta # 0) =>
        /\ LoadExceeded(ht.before) =>
              /\ ht.table.capacity = 2 * ht.before.capacity
              /\ ProbedTable.capacity = 2 * ht.before.capacity
              /\ ProbedTable.size = ht.before.size
              /\ Cardinality(DOMAIN ProbedTable.entries) = ht.before.size
              /\ Contents(ProbedTable) = Contents(ht.before)
              /\ AllKeysFound(ProbedTable)
              /\ ht.table.size \in {ProbedTable.size, ProbedTable.size + 1}
              /\ Contents(ht.table)
                    = AbstractPut(Contents(ProbedTable), ht.last.key, ht.last.delta)
        /\ ~LoadExceeded(ht.before) => ht.table.capacity = ht.before.capacity

\* Witness of C28: an ht_put of a new key on a table of 6 entries in 8
\* slots: the table was resized to 16 slots and the key inserted.
PutResizedFullTable ==
    /\ ht.last.op = "put"
    /\ ht.last.delta # 0
    /\ ht.before.capacity = 8
    /\ ht.before.size = 6
    /\ ht.table.capacity = 16
    /\ ht.table.size = 7


\* ---------------------------------------------------------------------
\* The serialization of a table

\* The message a send of rank r has just put in flight.
JustSent(r) == chan'[r][Len(chan'[r])]

\* What send_hash_table sends at a step of rank r: the number of occupied
\* slots, then for the i-th of them its key length, key bytes and count.
SendFollowsFormat(r) ==
    LET s == sender[r]
        entries == ht_to_array(SendingTable(r))
        returned == pc'[r] # "send" \/ sender'[r].tag_base # s.tag_base
    IN  /\ pc[r] = "send"
        /\ JustSent(r).tag = s.tag_base + s.step
        /\ s.step = 0 =>
              /\ JustSent(r).data = Len(entries)
              /\ returned <=> entries = <<>>
              /\ ~returned => sender'[r].i = 1 /\ sender'[r].step = 1
        /\ s.step > 0 => s.i \in 1..Len(entries)
        /\ s.step = 1 => JustSent(r).data = Len(entries[s.i].key) /\ ~returned
        /\ s.step = 2 => JustSent(r).data = entries[s.i].key /\ ~returned
        /\ s.step = 3 =>
              /\ JustSent(r).data = entries[s.i].value
              /\ returned <=> s.i = Len(entries)
              /\ ~returned => sender'[r].i = s.i + 1 /\ sender'[r].step = 1

\* The table of rank s that rank 0 is receiving, as the mapping rank s
\* had when it began to send.
ReceivingFrom(s) ==
    IF receiver.tag_base = WORD_TAG_BASE
    THEN history.partial[s].words ELSE history.partial[s].artists

\* What receive_hash_table does with a message of rank s: it takes the
\* entry count, then for each announced entry the key length, the key
\* and the count in turn, and adds the count to the key received just
\* before it; it returns after the announced number of entries with
\* nothing of the table left in flight or unsent.
ReceiveFollowsFormat(s) ==
    LET at == FirstWithTag(chan[s], receiver.tag_base + receiver.step, 1)
        returned == history'.merged # history.merged
        dest == IF receiver.tag_base = WORD_TAG_BASE THEN global_words ELSE global_artists
        destAfter == IF receiver.tag_base = WORD_TAG_BASE THEN global_words' ELSE global_artists'
        entries == Cardinality(DOMAIN ReceivingFrom(s))
    IN  /\ pc[0] = "recv"
        /\ s = receiver.source
        /\ at # 0
        /\ chan'[s] = Without(chan[s], at)
        /\ receiver.step = 0 =>
              /\ chan[s][at].data = entries
              /\ returned <=> entries = 0
              /\ ~returned => receiver'.entry_count = entries /\ receiver'.i = 0
        /\ receiver.step \in {1, 2} => ~returned
        /\ receiver.step = 2 =>
              /\ Len(chan[s][at].data) = receiver.len
              /\ receiver'.buffer = chan[s][at].data
        /\ receiver.step = 3 =>
              /\ receiver.buffer \in DOMAIN ReceivingFrom(s)
              /\ chan[s][at].data = ReceivingFrom(s)[receiver.buffer]
              /\ destAfter = ht_put(dest, receiver.buffer, ReceivingFrom(s)[receiver.buffer])
              /\ returned <=> receiver.i + 1 = entries
        /\ receiver.step # 3 => destAfter = dest
        /\ returned =>
              /\ \A k \in DOMAIN chan'[s] :
                    chan'[s][k].tag \notin receiver.tag_base..(receiver.tag_base + 3)
              /\ pc[s] # "send" \/ sender[s].tag_base # receiver.tag_base

\* C29: send_hash_table sends the entry count and then exactly that many
\* (key length, key bytes, count) triples in that order; receive_hash_table
\* takes exactly the announced number of triples and applies each count
\* to the key received just before it, so that the two never disagree on
\* the number or the pairing of the messages.
SerializationAgrees ==
    /\ [][\A r \in Ranks : SendsIn(r) => SendFollowsFormat(r)]_vars
    /\ [][\A s \in Ranks : TakenFrom(s) => ReceiveFollowsFormat(s)]_vars

\* Witness of C29: rank 0 has applied one entry of a table of two or more
\* from rank 1 and holds the key of the next one, its count in flight.
SecondTripleHalfReceived ==
    /\ pc[0] = "recv"
    /\ receiver.source = 1
    /\ receiver.entry_count >= 2
    /\ receiver.i = 1
    /\ receiver.step = 3
    /\ receiver.buffer # <<>>
    /\ \E k \in DOMAIN chan[1] : chan[1][k].tag = receiver.tag_base + 3


\* ---------------------------------------------------------------------
\* process_lyrics on arbitrary text

TokMaxLen == 5
TokMaxCalls == 2

\* 'a', 'B', '7', the apostrophe and the space.
TokAlphabet == {97, 66, 55, APOSTROPHE, 32}

\* The texts of the calls after the first: "Ba7 a'B" and "a'".
TokLater == {<<66, 97, 55, 32, 97, 39, 66>>, <<97, 39>>}

\* A word table as main() initialises it, and the text of the first call.
TokInit ==
    ht \in [lyrics : SeqsUpTo(TokAlphabet, TokMaxLen),
            table : {ht_init(WORD_TABLE_CAPACITY)},
            total : {0},
            processed : {<<>>}]

\* process_lyrics(&word_counts, lyrics, &total_words), and the text of
\* the next call.
TokProcess(next) ==
    /\ Len(ht.processed) < TokMaxCalls
    /\ LET counted == process_lyrics(ht.table, ht.lyrics, ht.total)
       IN  ht' = [lyrics |-> next,
                  table |-> counted.table,
                  total |-> counted.total,
                  processed |-> Append(ht.processed, ht.lyrics)]
    /\ UNCHANGED <<pipeVars, part, csv, msp>>

TokNext == \E next \in TokLater : TokProcess(next)

InitTok == TokInit /\ PipeIdle /\ PartIdle /\ CsvIdle /\ MsIdle
SpecTok == InitTok /\ [][TokNext]_vars

\* The maximal runs of alphanumeric-or-apostrophe characters of a text,
\* as pairs <<a, b>>: the run is text[a+1 .. b].
MaximalRuns(text) ==
    {run \in (0..Len(text)) \X (0..Len(text)) :
        /\ run[1] < run[2]
        /\ \A i \in (run[1] + 1)..run[2] : IsAlnum(text[i]) \/ text[i] = APOSTROPHE
        /\ run[1] = 0 \/ ~(IsAlnum(text[run[1]]) \/ text[run[1]] = APOSTROPHE)
        /\ run[2] = Len(text)
              \/ ~(IsAlnum(text[run[2] + 1]) \/ text[run[2] + 1] = APOSTROPHE)}

LongRuns(text) == {run \in MaximalRuns(text) : run[2] - run[1] >= 3}

Lowercased(text, run) == [i \in 1..(run[2] - run[1]) |-> ToLower(text[run[1] + i])]

\* The number of long runs of the texts whose lowercased form is in keys.
RECURSIVE RunsCounted(_, _)
RunsCounted(texts, keys) ==
    IF texts = <<>> THEN 0
    ELSE Cardinality({run \in LongRuns(Head(texts)) : Lowercased(Head(texts), run) \in keys})
         + RunsCounted(Tail(texts), keys)

KeysCounted(texts) ==
    UNION {{Lowercased(texts[i], run) : run \in LongRuns(texts[i])} : i \in DOMAIN texts}

\* C30: process_lyrics counts exactly the maximal runs of alphanumeric or
\* apostrophe characters of length >= 3: the table maps the lowercased
\* form of every such run to the number of its occurrences, total_words
\* is their number, shorter runs are not counted, and every key has at
\* least 3 characters, all lowercase letters, digits or apostrophes.
CountsExactlyLongRuns ==
    /\ DOMAIN Contents(ht.table) = KeysCounted(ht.processed)
    /\ \A key \in DOMAIN Contents(ht.table) :
          /\ Contents(ht.table)[key] = RunsCounted(ht.processed, {key})
          /\ Len(key) >= 3
          /\ \A i \in DOMAIN key :
                key[i] \in 97..122 \/ key[i] \in 48..57 \/ key[i] = APOSTROPHE
    /\ ht.total = RunsCounted(ht.processed, KeysCounted(ht.processed))
    /\ ht.table.size = Cardinality(KeysCounted(ht.processed))

\* Witness of C30: the text "a'B a" was processed, then "Ba7 a'B": the
\* run a'B was counted twice under the key a'b, ba7 once, the run a not.
SameWordInTwoCases ==
    /\ ht.processed = <<<<97, 39, 66, 32, 97>>, <<66, 97, 55, 32, 97, 39, 66>>>>
    /\ Contents(ht.table) = (<<97, 39, 98>> :> 2) @@ (<<98, 97, 55>> :> 1)
    /\ ht.total = 3


\* ---------------------------------------------------------------------
\* Every record is counted by exactly one rank

\* The number of records of a column file, read from offset pos on.
RECURSIVE RecordsFrom(_, _)
RecordsFrom(f, pos) ==
    LET rec == read_csv_record(f, pos)
    IN  IF rec.len < 0 THEN 0 ELSE 1 + RecordsFrom(f, rec.pos)

DataRecords(f) == RecordsFrom(f, compute_header_length(f))

\* The words one process reading the whole text column counts.
RECURSIVE WordsFrom(_, _)
WordsFrom(f, pos) ==
    LET rec == read_csv_record(f, pos)
    IN  IF rec.len < 0 THEN 0
        ELSE CountLyrics(ht_init(WORD_TABLE_CAPACITY), 0, rec).total + WordsFrom(f, rec.pos)

AllPastReading == \A r \in Ranks : PcRank(pc[r]) > PcRank("read_artist")

\* C31 (as claimed): with any number of ranks every data record of a
\* column file is counted by exactly one rank: once all ranks have left
\* their read loops, the local_song_total of all ranks add up to the
\* number of data records of the artist column, and their
\* local_word_total to the words of the records of the text column.
EveryRecordCountedOnce ==
    AllPastReading =>
        /\ SumOver([r \in Ranks |-> local_totals[r].songs], world_size)
              = DataRecords(artist_file)
        /\ SumOver([r \in Ranks |-> local_totals[r].words], world_size)
              = WordsFrom(text_file, compute_header_length(text_file))


\* ---------------------------------------------------------------------
\* mpi_spotify.c: the overlapping tags of the two maps

\* Rank 0 takes a message of worker s in this step.
MsTakenFrom(s) == Len(msp'.up[s]) = Len(msp.up[s]) - 1

\* The message the receive posted by rank 0 matches.
MsMatched ==
    msp.up[msp.rcv.source][FirstWithTag(msp.up[msp.rcv.source],
                                        msp.rcv.tag_base + msp.rcv.step, 1)]

\* The receive of rank 0 matches the message send_map sent from the same
\* place of the same map, and a value is added to the count of the key
\* of its own entry in the map of its own kind.
MsMatchesIntended(s) ==
    LET sent == IF msp.rcv.tag_base = TAG_WORD_COUNT
                THEN msp.word_map[s] ELSE msp.artist_map[s]
    IN  /\ msp.pc[0] = "receive_map"
        /\ s = msp.rcv.source
        /\ MsMatched.intent = <<msp.rcv.tag_base, msp.rcv.step,
                                IF msp.rcv.step = 0 THEN 0 ELSE msp.rcv.i + 1>>
        /\ msp.rcv.step = 0 => MsMatched.data = hashmap_size(sent)
        /\ msp.rcv.step = 3 =>
              /\ msp.rcv.key \in DOMAIN sent
              /\ MsMatched.data = sent[msp.rcv.key]
              /\ IF msp.rcv.tag_base = TAG_WORD_COUNT
                 THEN /\ msp'.word_map[0]
                           = hashmap_increment(msp.word_map[0], msp.rcv.key, sent[msp.rcv.key])
                      /\ msp'.artist_map[0] = msp.artist_map[0]
                 ELSE /\ msp'.artist_map[0]
                           = hashmap_increment(msp.artist_map[0], msp.rcv.key, sent[msp.rcv.key])
                      /\ msp'.word_map[0] = msp.word_map[0]
        /\ msp.rcv.step # 3 =>
              msp'.word_map[0] = msp.word_map[0] /\ msp'.artist_map[0] = msp.artist_map[0]

\* C32: the tags of the word map (3, 4, 5, 6) and of the artist map (4, 5,
\* 6, 7) overlap, yet with messages of one sender and one tag taken in
\* the order sent every receive of receive_map matches the message
\* send_map meant for it: no artist message is taken as a word message or
\* the other way round, and every pair is merged into its own map.
OverlappingTagsMatchIntended ==
    [][\A s \in MsWorkers : MsTakenFrom(s) => MsMatchesIntended(s)]_vars

\* Witness of C32: rank 0 waits for a key length of worker 1's word map on
\* tag 4 while the entry count of the worker's artist map, also on tag
\* 4, is in flight behind it.
ArtistCountBehindWordKeyLength ==
    /\ msp.pc[0] = "receive_map"
    /\ msp.rcv.source = 1
    /\ msp.rcv.tag_base = TAG_WORD_COUNT
    /\ msp.rcv.step = 1
    /\ \E i \in DOMAIN msp.up[1] : \E j \in DOMAIN msp.up[1] :
          /\ i < j
          /\ msp.up[1][i].tag = TAG_WORD_COUNT + 1
          /\ msp.up[1][i].intent[1] = TAG_WORD_COUNT
          /\ msp.up[1][j].tag = TAG_ARTIST_COUNT
          /\ msp.up[1][j].intent[1] = TAG_ARTIST_COUNT


\* ---------------------------------------------------------------------
\* total_words and the word table

\* The sum of the counts of a table.
RECURSIVE SumOfValues(_)
SumOfValues(entries) ==
    IF entries = <<>> THEN 0 ELSE Head(entries).value + SumOfValues(Tail(entries))

TableSum(t) == SumOfValues(ht_to_array(t))

\* C33: the reported total_words is the sum of all counts of the merged
\* word table.  While a rank reads, its local_word_total is the sum of
\* the counts of its word table; the reduction leaves rank 0 with the
\* sum of the local totals; and when rank 0 has merged the tables of all
\* ranks, global_word_total is the sum of the counts of global_words.
TotalWordsIsTableSum ==
    /\ \A r \in Ranks :
          pc[r] \in {"read_text", "read_artist", "reduce"}
              => local_totals[r].words = TableSum(word_counts[r])
    /\ PcRank(pc[0]) > PcRank("reduce")
          => global_totals.words
                = SumOver([r \in Ranks |-> local_totals[r].words], world_size)
    /\ pc[0] = "export" => global_totals.words = TableSum(global_words)

\* Witness of C33: rank 0 of three has merged all tables; a word counted
\* by two ranks has their counts added up in global_words.
MergedTableOfThreeSumsUp ==
    /\ pc[0] = "export"
    /\ world_size = 3
    /\ global_totals.words >= 3
    /\ \E r \in Contributors :
          \E key \in DOMAIN history.partial[0].words \cap DOMAIN history.partial[r].words :
              Contents(global_words)[key] >= 2


\* ---------------------------------------------------------------------
\* spotify_mpi.c under synchronous sends

\* An MPI_Send that returns only once the matching receive has started:
\* the worker the record goes to is in its receive loop and has taken
\* what was sent before.
SmLyricPosted ==
    /\ msp.dest \in SmWorkers
    /\ msp.pc[msp.dest] = "recv"
    /\ msp.down[msp.dest] = <<>>

\* Rank 0 has posted the receive that matches the next send of worker r.
SmUpPosted(r) ==
    /\ msp.pc[0] = "recv"
    /\ msp.rcv.source = r
    /\ msp.upbox[r] # <<>>
    /\ msp.rcv.tag = Head(msp.upbox[r]).tag
    /\ msp.up[r] = <<>>

SmSyncSendLyric == SmLyricPosted /\ SmSendLyric
SmSyncTerminate == SmLyricPosted /\ SmTerminate
SmSyncSendUp(r) == SmUpPosted(r) /\ SmSendUp(r)

SmSyncNext ==
    \/ SmReadRecord
    \/ SmSyncSendLyric
    \/ SmSyncTerminate
    \/ \E r \in SmWorkers : SmWorkerRecv(r)
    \/ \E r \in SmRanks : SmClassify(r)
    \/ \E r \in SmWorkers : SmContributeReduce(r)
    \/ SmReduceRoot
    \/ \E r \in SmWorkers : SmSyncSendUp(r)
    \/ SmRecvUp
    \/ SmPrint

SpecSmSync == InitSm /\ [][SmSyncNext]_vars

\* Some rank can take a step with synchronous sends.
SmSyncCanStep ==
    \/ msp.pc[0] = "read"
    \/ ENABLED (\/ SmSyncSendLyric \/ SmSyncTerminate \/ SmReduceRoot \/ SmRecvUp \/ SmPrint
                \/ \E r \in SmRanks : SmClassify(r)
                \/ \E r \in SmWorkers :
                      SmWorkerRecv(r) \/ SmContributeReduce(r) \/ SmSyncSendUp(r))

\* The records dealt to rank r: those of index r, r + N, r + 2N, ...
SmShareOf(r) ==
    LET dealt == SmDealt(msp.file, 0)
        RECURSIVE Pick(_)
        Pick(i) == IF i > Len(dealt) THEN <<>>
                   ELSE (IF (i - 1) % msp.size = r THEN <<dealt[i]>> ELSE <<>>) \o Pick(i + 1)
    IN  Pick(1)

\* The pairs of a map of rank r as rank 0 merges them.
SmPairs(r, tag, map) == [i \in 1..Len(map) |-> <<r, tag, map[i].key, map[i].count>>]

\* What rank 0 has to merge: the word maps of ranks 1, 2, ..., then
\* their artist maps.
RECURSIVE SmWordPairsFrom(_)
SmWordPairsFrom(r) ==
    IF r >= msp.size THEN <<>>
    ELSE SmPairs(r, TAG_WORD, SmWordsOf(SmShareOf(r))) \o SmWordPairsFrom(r + 1)

RECURSIVE SmArtistPairsFrom(_)
SmArtistPairsFrom(r) ==
    IF r >= msp.size THEN <<>>
    ELSE SmPairs(r, TAG_ARTIST, SmArtistsOf(SmShareOf(r))) \o SmArtistPairsFrom(r + 1)

\* C34: with synchronous sends the exchange of spotify_mpi.c completes.
\* Rank 0 drains the word maps of ranks 1..N-1 and then their artist
\* maps while each of them sends its word map and then its artist map:
\* no state short of the end is stuck, every step brings the end nearer,
\* what rank 0 has merged is always the beginning of the pairs of all
\* contributors in that order, and at the end it is all of them, each
\* once, with nothing left in flight.
SynchronousExchangeCompletes ==
    /\ [](SmAllDone \/ SmSyncCanStep)
    /\ [][SmStepsLeft' < SmStepsLeft /\ SmStepsLeft' >= 0]_vars
    /\ [](LET all == SmWordPairsFrom(1) \o SmArtistPairsFrom(1)
          IN  /\ Len(msp.merged) <= Len(all)
              /\ msp.merged = SubSeq(all, 1, Len(msp.merged))
              /\ SmAllDone =>
                    /\ msp.merged = all
                    /\ \A r \in SmWorkers : msp.up[r] = <<>> /\ msp.upbox[r] = <<>>)

\* Witness of C34: a run of three ranks with synchronous sends has ended
\* and rank 0 merged word and artist pairs of both contributors.
SynchronousExchangeOfThreeDone ==
    /\ SmAllDone
    /\ msp.size = 3
    /\ \A r \in SmWorkers : \A tag \in {TAG_WORD, TAG_ARTIST} :
          \E i \in DOMAIN msp.merged : msp.merged[i][1] = r /\ msp.merged[i][2] = tag


\* ---------------------------------------------------------------------
\* read_csv_record conserves bytes

\* The buffers of the successive calls from offset p on, concatenated.
RECURSIVE ReadToEnd(_, _)
ReadToEnd(f, p) ==
    LET rec == read_csv_record(f, p)
    IN  IF rec.len < 0 THEN <<>> ELSE rec.buf \o ReadToEnd(f, rec.pos)

\* C35: read_csv_record returns the number of bytes it consumed: after a
\* call that returned a record the stream has advanced by the value
\* returned, a byte read ahead and pushed back not counted, and the
\* buffer holds exactly those bytes; a call returns -1 only at the end of
\* the stream, consuming nothing.  Hence the records of successive calls
\* from an offset, concatenated, are the stream from there to its end.
ReadConservesBytes ==
    /\ csv.calls > 0 =>
          IF csv.rec.len < 0
          THEN csv.rec.len = -1 /\ csv.pos = csv.start /\ csv.start >= Len(csv.file)
          ELSE /\ csv.rec.len = csv.pos - csv.start
               /\ csv.rec.len = Len(csv.rec.buf)
               /\ csv.rec.len > 0
               /\ csv.rec.buf = Slice(csv.file, csv.start, csv.pos)
    /\ ReadToEnd(csv.file, csv.pos) = Slice(csv.file, csv.pos, Len(csv.file))

\* Witness of C35: a call returned the record "a<CR>" after reading the
\* byte behind the CR, which was not a line feed and is still to be read.
LookAheadPushedBack ==
    /\ csv.calls > 0
    /\ csv.rec.buf = <<97, CR>>
    /\ csv.rec.len = 2
    /\ csv.pos = csv.start + 2
    /\ csv.pos < Len(csv.file)
    /\ csv.file[csv.pos + 1] = 97


\* ---------------------------------------------------------------------
\* The probe loops terminate

\* The table the probe loop of an ht_put into t with a non-zero delta
\* runs on.
ProbedByPut(t) == IF LoadExceeded(t) THEN ht_resize(t, t.capacity * 2) ELSE t

\* The slots of t a probe from slot `index` visits before it stops: none
\* of them is visited twice.
RECURSIVE ProbeLength(_, _, _, _, _)
ProbeLength(entries, key, index, mask, visited) ==
    IF visited > mask + 1 THEN visited
    ELSE IF index \notin DOMAIN entries THEN visited
    ELSE IF StrCmp(entries[index].key, key) = 0 THEN visited
    ELSE ProbeLength(entries, key, (index + 1) % (mask + 1), mask, visited + 1)

\* C36: whenever ht_put or ht_resize enters its probe loop the table
\* probed has an empty slot.  For every table the program can hold, the
\* table an ht_put probes has fewer entries than slots, its size is the
\* number of its occupied slots, and the probe for any key stops within
\* capacity steps at the key's slot or at an empty one; a table that is
\* resized has fewer entries than the new table has slots, so every
\* probe of the rehash finds an empty slot too.
ProbeFindsEmptySlot ==
    LET t == ProbedByPut(ht.table)
    IN  /\ t.size < t.capacity
        /\ Cardinality(DOMAIN t.entries) = t.size
        /\ DOMAIN t.entries \subseteq 0..(t.capacity - 1)
        /\ \A key \in PutKeys :
              LET home == hash_string(key) % t.capacity
                  index == ProbeKey(t.entries, key, home, t.capacity - 1)
              IN  /\ ProbeLength(t.entries, key, home, t.capacity - 1, 0) < t.capacity
                  /\ index \in 0..(t.capacity - 1)
                  /\ index \in DOMAIN t.entries => t.entries[index].key = key
        /\ LoadExceeded(ht.table) =>
              /\ ht.table.size < 2 * ht.table.capacity
              /\ t.capacity = 2 * ht.table.capacity
              /\ t.size = ht.table.size

\* Witness of C36: an ht_put of a new key into a table of 12 entries in
\* 16 slots has acted; it resized the table to 32 slots before probing,
\* and the rehash and the probe each found an empty slot.
PutProbedResizedTable ==
    /\ ht.last.op = "put"
    /\ ht.last.delta # 0
    /\ ht.before.size = 12
    /\ ht.before.capacity = 16
    /\ ProbedByPut(ht.before).capacity = 32
    /\ ht.table.capacity = 32
    /\ ht.table.size = 13
    /\ \E index \in DOMAIN ht.table.entries \ DOMAIN ProbedByPut(ht.before).entries :
          ht.table.entries[index].key = ht.last.key

=============================================================================
